---- MODULE Spec2Model ----
(***************************************************************************)
(* A model of vk-parse's streaming parser (src/vk-parse/src/parse.rs).     *)
(*                                                                         *)
(* The token source (xml-rs) is the environment: it yields, one pull at a  *)
(* time, the events of a well-formed document (or a tokenization error).   *)
(* The parser is the recursive descent of parse.rs, with its call stack    *)
(* made explicit: one frame per active function, one step per call of      *)
(* ctx.events.next(), and one per call and per return.  Texts (character data, attribute values) are        *)
(* sequences of one-character strings; element and attribute names are     *)
(* strings.                                                                *)
(***************************************************************************)
EXTENDS Integers, Sequences, FiniteSets, TLC

VARIABLES
    fam,      \* the family of documents the token source draws from
    tok,      \* the token source: what it has yielded so far
    xpath,    \* ParseCtx.xpath, as the sequence of its '/'-separated names
    errors,   \* ParseCtx.errors
    stack,    \* the call stack of the parser, innermost frame last
    result,   \* what parse_xml returned, "running" until it returns
    sig,      \* the call or return that the function of the top frame takes next
    before,   \* history: what held before the last event was pulled
    last      \* history: the last function return since the last event was pulled

vars == <<fam, tok, xpath, errors, stack, result, sig, before, last>>

-----------------------------------------------------------------------------
(* Bounds of the model. *)

\* The token source yields at most this many start-tags and text runs.
MaxEvents == 7

\* Elements nest at most this deep in the documents drawn.
MaxDepth == 5

\* the longest code text of a define, in pieces of DefineSegments
MaxSegments == 3

-----------------------------------------------------------------------------
(* Texts. *)

Front(s) == SubSeq(s, 1, Len(s) - 1)

Last(s) == s[Len(s)]

\* An attribute list (Vec<OwnedAttribute>) is a sequence of <<name, value>>.
NoAttrs == <<>>

Has(attrs, n) == \E i \in 1..Len(attrs) : attrs[i][1] = n

\* the value a match_attributes arm `n => x = Some(a.value)` leaves in x
Get(attrs, n) ==
    IF Has(attrs, n)
    THEN LET i == CHOOSE j \in 1..Len(attrs) :
                      attrs[j][1] = n /\ \A k \in (j + 1)..Len(attrs) : attrs[k][1] # n
         IN [some |-> TRUE, v |-> attrs[i][2]]
    ELSE [some |-> FALSE, v |-> <<>>]

RECURSIVE Without(_, _)
Without(attrs, n) ==
    IF attrs = <<>> THEN <<>>
    ELSE IF Head(attrs)[1] = n THEN Without(Tail(attrs), n)
    ELSE <<Head(attrs)>> \o Without(Tail(attrs), n)

\* char::is_whitespace, on the characters the documents drawn contain
is_whitespace(ch) == ch \in {" ", "\n", "\t"}

RECURSIVE trim_start(_)
trim_start(s) ==
    IF s # <<>> /\ is_whitespace(Head(s)) THEN trim_start(Tail(s)) ELSE s

RECURSIVE trim_end(_)
trim_end(s) ==
    IF s # <<>> /\ is_whitespace(Last(s)) THEN trim_end(Front(s)) ELSE s

trim(s) == trim_end(trim_start(s))

starts_with(s, p) == Len(s) >= Len(p) /\ SubSeq(s, 1, Len(p)) = p

\* str::strip_prefix: the rest of the text when it starts with p
strip_prefix(s, p) ==
    IF starts_with(s, p)
    THEN [some |-> TRUE, v |-> SubSeq(s, Len(p) + 1, Len(s))]
    ELSE [some |-> FALSE, v |-> <<>>]

Digits == <<"0", "1", "2", "3", "4", "5", "6", "7", "8", "9">>

HexDigits == Digits \o <<"a", "b", "c", "d", "e", "f">>

Lower(ch) ==
    CASE ch = "A" -> "a" [] ch = "B" -> "b" [] ch = "C" -> "c"
      [] ch = "D" -> "d" [] ch = "E" -> "e" [] ch = "F" -> "f" [] OTHER -> ch

DigitValue(ch, radix) ==
    LET ds == SubSeq(HexDigits, 1, radix)
        hit == {i \in 1..Len(ds) : ds[i] = Lower(ch)}
    IN IF hit = {} THEN -1 ELSE (CHOOSE i \in hit : TRUE) - 1

\* The integer types are modelled at the width TLC's integers allow: the 64-bit
\* signed range of i64 as 31 bits, the 32-bit unsigned range of u32 as 16 bits.
i64_MAX == 2^30 - 1

u32_MAX == 2^16 - 1

u8_MAX == 2^8 - 1

RECURSIVE accumulate(_, _, _, _)
accumulate(s, radix, acc, max) ==
    IF s = <<>> THEN [some |-> TRUE, v |-> acc]
    ELSE LET d == DigitValue(Head(s), radix)
         IN IF d < 0 \/ acc > (max - d) \div radix
            THEN [some |-> FALSE, v |-> 0]
            ELSE accumulate(Tail(s), radix, acc * radix + d, max)

\* <integer>::from_str_radix for a type of range min..max (min is -max-1 for a
\* signed type and 0 for an unsigned one): an optional sign, then digits
from_str_radix(s, radix, min, max) ==
    LET neg == s # <<>> /\ Head(s) = "-" /\ min < 0
        body == IF s # <<>> /\ (Head(s) = "+" \/ neg) THEN Tail(s) ELSE s
        r == accumulate(body, radix, 0, IF neg THEN max + 1 ELSE max)
    IN IF body = <<>> \/ ~r.some THEN [some |-> FALSE, v |-> 0]
       ELSE [some |-> TRUE, v |-> IF neg THEN 0 - r.v ELSE r.v]

-----------------------------------------------------------------------------
(* Values of the parser. *)

None == [some |-> FALSE, v |-> <<>>]

Some(v) == [some |-> TRUE, v |-> v]

\* An XmlEvent as ctx.events.next() yields it; t is "None" at the end of the
\* stream and "Err" for a tokenization error.  The same record carries the
\* two signals of the explicit call stack: "Call" (the function is entered
\* with the start-tag's attributes) and "Ret" (a callee returned val).
Ev(t, name, attrs, text) ==
    [t |-> t, name |-> name, attrs |-> attrs, text |-> text, val |-> None]

Ret(val) == [t |-> "Ret", name |-> "", attrs |-> NoAttrs, text |-> <<>>, val |-> val]

\* The history of a step: the function that returned last in it (fn), the arm
\* of the caller it returned into, whether it returned Some (some) and what (v),
\* the attributes it was called with, and what held before the event that
\* called it: breadcrumb x0, open elements o0, number of diagnostics e0, number
\* of events yielded n0, children of the caller k0; d0 is the depth of the
\* caller's frame.
NoLast == [fn |-> "", arm |-> "", some |-> FALSE, v |-> <<>>, attrs |-> <<>>,
           x0 |-> <<>>, o0 |-> <<>>, e0 |-> 0, n0 |-> 0, k0 |-> 0, d0 |-> 0]

\* Error::<kind> { xpath, name }
Diag(kind, xp, name) == [kind |-> kind, xpath |-> xp, name |-> name]

-----------------------------------------------------------------------------
(* The parse context and the call stack. *)

\* A step works on a record c of the parser's state: xpath, errors, stack,
\* result, last and sig, with brk (the loop of the top frame has just ended) and
\* the history values x0, o0, e0, n0 (breadcrumb, open elements, number of
\* diagnostics and number of events yielded before the step's event).

Top(c) == c.stack[Len(c.stack)]

SetTop(c, f) == [c EXCEPT !.stack[Len(c.stack)] = f]

\* ParseCtx::push_element
\* a push_element that pushes only names of the first level
push_element_first_level(c, name) ==
    IF c.xpath = <<>> THEN [c EXCEPT !.xpath = Append(@, name)] ELSE c

push_element(c, name) == [c EXCEPT !.xpath = Append(@, name)]

\* ParseCtx::pop_element
pop_element(c) ==
    IF c.xpath # <<>>
    THEN [c EXCEPT !.xpath = Front(@)]
    ELSE [c EXCEPT !.errors = Append(@, Diag("Internal", <<>>, ""))]

\* a push that overwrites the list
Log_overwriting(c, kind, name) == [c EXCEPT !.errors = <<Diag(kind, c.xpath, name)>>]

Log(c, kind, name) == [c EXCEPT !.errors = Append(@, Diag(kind, c.xpath, name))]

\* the macro unwrap_attribute, when the attribute is absent (the caller returns None)
unwrap_attribute(c, attribute) == Log(c, "MissingAttribute", attribute)

\* the first of the names that the attribute list lacks, "" when it has them all
RECURSIVE FirstMissing(_, _)
FirstMissing(attrs, names) ==
    IF names = <<>> THEN ""
    ELSE IF ~Has(attrs, Head(names)) THEN Head(names)
    ELSE FirstMissing(attrs, Tail(names))

Frame(fn, c, in) ==
    [fn |-> fn, arm |-> "", attrs |-> in.attrs, kids |-> <<>>, depth |-> 0,
     val |-> None, code |-> <<>>, loc |-> <<>>,
     x0 |-> c.x0, o0 |-> c.o0, e0 |-> c.e0, n0 |-> c.n0,
     k0 |-> IF c.stack = <<>> THEN 0 ELSE Len(Top(c).kids)]

\* no signal pending: the function of the top frame pulls the next event
NoSig == [t |-> "", name |-> "", attrs |-> NoAttrs, text |-> <<>>, val |-> None]

\* a call of function fn with the attributes of the start-tag `in`: its frame
\* is pushed, and its body starts at the next step
Call(c, fn, in) ==
    [c EXCEPT !.stack = Append(@, Frame(fn, c, in)), !.sig = [in EXCEPT !.t = "Call"]]

\* the return of the top frame's function with value val to its caller, which
\* takes it at the next step
Return(c, val) ==
    LET f == Top(c)
        rest == Front(c.stack)
        c1 == [c EXCEPT !.stack = rest,
                        !.last = [fn |-> f.fn,
                                  arm |-> IF rest = <<>> THEN "" ELSE Last(rest).arm,
                                  some |-> val.some, v |-> val.v, attrs |-> f.attrs,
                                  x0 |-> f.x0, o0 |-> f.o0, e0 |-> f.e0, n0 |-> f.n0,
                                  k0 |-> f.k0, d0 |-> Len(rest)]]
    IN [c1 EXCEPT !.sig = IF rest = <<>> THEN NoSig ELSE Ret(val)]

\* a loop's arm `name => fn(ctx, attributes)`, after the macro pushed the name
Arm(c, in, fn) ==
    LET c1 == push_element(c, in.name)
    IN Call(SetTop(c1, [Top(c1) EXCEPT !.arm = in.name]), fn, in)

PushKid(c, v) == SetTop(c, [Top(c) EXCEPT !.kids = Append(@, v)])

\* `if let Some(v) = f(..) { children.push(v) }`
PushIfSome(c, val) == IF val.some THEN PushKid(c, val.v) ELSE c

NoBrk(c) == [c EXCEPT !.brk = FALSE]

\* attribute_arm that takes any `dir`
attribute_arm_any_dir(c, fn, a) ==
    CASE fn = "parse_vendorid" /\ a[1] = "id" ->
           LET hex == strip_prefix(a[2], <<"0", "x">>)
               v == IF hex.some THEN from_str_radix(hex.v, 16, 0, u32_MAX) ELSE None
           IN IF v.some THEN c ELSE Log(c, "UnexpectedAttributeValue", "id")
      [] OTHER -> c

\* the arms of match_attributes that do more than keep the value: the `id` of
\* a <vendorid> (parse_vendorid) and the `dir` of an <enum> (parse_enum)
attribute_arm(c, fn, a) ==
    CASE fn = "parse_vendorid" /\ a[1] = "id" ->
           LET hex == strip_prefix(a[2], <<"0", "x">>)
               v == IF hex.some THEN from_str_radix(hex.v, 16, 0, u32_MAX) ELSE None
           IN IF v.some THEN c ELSE Log(c, "UnexpectedAttributeValue", "id")
      [] fn = "parse_enum" /\ a[1] = "dir" ->
           IF a[2] = <<"-">> THEN c ELSE Log(c, "UnexpectedAttributeValue", "dir")
      [] OTHER -> c

\* the macro match_attributes of function fn: an attribute outside the arms is
\* reported
RECURSIVE match_attributes(_, _, _, _)
match_attributes(c, fn, attrs, arms) ==
    IF attrs = <<>> THEN c
    ELSE match_attributes(
             IF Head(attrs)[1] \in arms THEN attribute_arm(c, fn, Head(attrs))
             ELSE Log(c, "UnexpectedAttribute", Head(attrs)[1]),
             fn, Tail(attrs), arms)

\* the macros match_elements and match_elements_combine_text, for an event that
\* no arm of the caller takes: an unmatched start-tag is reported and skipped,
\* the end-tag (or the end of the stream) ends the loop
match_elements(c, in) ==
    CASE in.t = "StartElement" ->
           LET c1 == push_element(c, in.name)
               c2 == Log(c1, "UnexpectedElement", in.name)
           IN Call(SetTop(c2, [Top(c2) EXCEPT !.arm = "_"]),
                   "consume_current_element", in)
      [] in.t = "EndElement" -> [pop_element(c) EXCEPT !.brk = TRUE]
      [] in.t \in {"None", "Err"} -> [c EXCEPT !.brk = TRUE]
      [] OTHER -> c

\* consume_current_element without its depth counter: it returns at the first
\* end-tag
consume_to_first_end(c, in) ==
    CASE in.t = "Call" -> c
      [] in.t = "StartElement" -> push_element(c, in.name)
      [] in.t \in {"EndElement", "None", "Err"} ->
           Return(IF in.t = "EndElement" THEN pop_element(c) ELSE c, None)
      [] OTHER -> c

consume_current_element(c, in) ==
    LET f == Top(c) IN
    CASE in.t = "Call" -> SetTop(c, [f EXCEPT !.depth = 1])
      [] in.t = "StartElement" ->
           SetTop(push_element(c, in.name), [f EXCEPT !.depth = @ + 1])
      [] in.t = "EndElement" ->
           LET c1 == SetTop(pop_element(c), [f EXCEPT !.depth = @ - 1])
           IN IF f.depth - 1 = 0 THEN Return(c1, None) ELSE c1
      [] in.t \in {"None", "Err"} -> Return(c, None)
      [] OTHER -> c

parse_text_element(c, in) ==
    LET f == Top(c) IN
    CASE in.t = "Call" -> SetTop(c, [f EXCEPT !.depth = 1])
      [] in.t = "StartElement" ->
           SetTop(push_element(c, in.name), [f EXCEPT !.depth = @ + 1])
      [] in.t = "Characters" -> SetTop(c, [f EXCEPT !.code = @ \o in.text])
      [] in.t = "EndElement" ->
           LET c1 == SetTop(pop_element(c), [f EXCEPT !.depth = @ - 1])
           IN IF f.depth - 1 = 0 THEN Return(c1, Some(f.code)) ELSE c1
      [] in.t \in {"None", "Err"} -> Return(c, Some(f.code))
      [] OTHER -> c

-----------------------------------------------------------------------------
(* The builders, one operator per function of parse.rs.  Each takes the     *)
(* signal `in`: "Call", an event pulled by its loop, or "Ret" from a callee. *)

\* parse_xml with a result that starts as an empty Registry instead of the
\* fatal error
parse_xml_any_root(c, in) ==
    CASE in.t = "Ret" ->
           IF Top(c).arm = "registry" THEN SetTop(c, [Top(c) EXCEPT !.val = in.val]) ELSE c
      [] in.t = "StartElement" /\ in.name = "registry" -> Arm(c, in, "parse_registry")
      [] OTHER ->
           LET c1 == match_elements(c, in)
               r == Top(c1).val
           IN IF c1.brk
              THEN Return([NoBrk(c1) EXCEPT !.result =
                              [st |-> "Ok", registry |-> r.v, errors |-> c1.errors]], r)
              ELSE c1

parse_xml(c, in) ==
    CASE in.t = "Ret" ->
           IF Top(c).arm = "registry" THEN SetTop(c, [Top(c) EXCEPT !.val = in.val]) ELSE c
      [] in.t = "StartElement" /\ in.name = "registry" -> Arm(c, in, "parse_registry")
      [] OTHER ->
           LET c1 == match_elements(c, in)
               r == Top(c1).val
           IN IF c1.brk
              THEN Return([NoBrk(c1) EXCEPT !.result =
                              IF r.some
                              THEN [st |-> "Ok", registry |-> r.v, errors |-> c1.errors]
                              ELSE [st |-> "MissingRegistryElement",
                                    registry |-> <<>>, errors |-> <<>>]], r)
              ELSE c1

RegistrySections ==
    [vendorids |-> "parse_vendorids", platforms |-> "platforms", tags |-> "parse_tags",
     types |-> "types", enums |-> "enums", commands |-> "commands",
     feature |-> "parse_feature", extensions |-> "parse_extensions",
     formats |-> "parse_formats", spirvextensions |-> "parse_spirvextensions",
     spirvcapabilities |-> "parse_spirvcapabilities"]

parse_registry(c, in) ==
    CASE in.t = "Call" -> c
      [] in.t = "Ret" ->
           IF Top(c).arm = "comment"
           THEN PushKid(c, [k |-> "Comment", text |-> in.val.v])
           ELSE PushIfSome(c, in.val)
      [] in.t = "StartElement" /\ in.name = "comment" -> Arm(c, in, "parse_text_element")
      [] in.t = "StartElement" /\ in.name \in DOMAIN RegistrySections ->
           Arm(c, in, RegistrySections[in.name])
      [] OTHER ->
           LET c1 == match_elements(c, in)
           IN IF c1.brk THEN Return(NoBrk(c1), Some(Top(c1).kids)) ELSE c1

\* A section of the registry that is a comment attribute and one loop over
\* children built by `child`: parse_vendorids, parse_tags, the inline arms
\* "platforms" and "commands", parse_extensions, parse_spirvextensions,
\* parse_spirvcapabilities (parse_formats reads no attribute).
Section(c, in, fn, kind, elem, child) ==
    CASE in.t = "Call" ->
           IF fn = "parse_formats" THEN c
           ELSE match_attributes(c, fn, in.attrs, {"comment"})
      [] in.t = "Ret" -> PushIfSome(c, in.val)
      [] in.t = "StartElement" /\ in.name = elem -> Arm(c, in, child)
      [] OTHER ->
           LET c1 == match_elements(c, in)
           IN IF c1.brk
              THEN Return(NoBrk(c1), Some([k |-> kind, children |-> Top(c1).kids]))
              ELSE c1

parse_vendorids(c, in) ==
    Section(c, in, "parse_vendorids", "VendorIds", "vendorid", "parse_vendorid")

parse_vendorid(c, in) ==
    LET a == Top(c).attrs
        hex == strip_prefix(Get(a, "id").v, <<"0", "x">>)
        id == IF Has(a, "id") /\ hex.some
              THEN from_str_radix(hex.v, 16, 0, u32_MAX) ELSE None
    IN
    CASE in.t = "Call" ->
           Call(match_attributes(c, "parse_vendorid", in.attrs, {"name", "comment", "id"}),
                "consume_current_element", in)
      [] OTHER ->
           IF ~Has(a, "name") THEN Return(unwrap_attribute(c, "name"), None)
           ELSE IF ~id.some THEN Return(unwrap_attribute(c, "id"), None)
           ELSE Return(c, Some([k |-> "VendorId", name |-> Get(a, "name").v, id |-> id.v]))

\* A builder that reads its attributes, consumes the element and only then
\* unwraps the required ones: parse_platform, parse_tag.
ConsumeThenUnwrap(c, in, fn, arms, required, kind) ==
    LET a == Top(c).attrs
        m == FirstMissing(a, required)
    IN
    CASE in.t = "Call" ->
           Call(match_attributes(c, fn, in.attrs, arms), "consume_current_element", in)
      [] OTHER ->
           IF m # "" THEN Return(unwrap_attribute(c, m), None)
           ELSE Return(c, Some([k |-> kind, name |-> Get(a, "name").v]))

platforms(c, in) == Section(c, in, "platforms", "Platforms", "platform", "parse_platform")

parse_platform(c, in) ==
    ConsumeThenUnwrap(c, in, "parse_platform", {"name", "comment", "protect"},
                      <<"name", "protect">>, "Platform")

parse_tags(c, in) == Section(c, in, "parse_tags", "Tags", "tag", "parse_tag")

parse_tag(c, in) ==
    ConsumeThenUnwrap(c, in, "parse_tag", {"name", "author", "contact"},
                      <<"name", "author", "contact">>, "Tag")

\* parse_integer: Some(v), or None with a SchemaViolation logged
parse_integer(text) ==
    IF starts_with(text, <<"0", "x">>)
    THEN from_str_radix(SubSeq(text, 3, Len(text)), 16, 0 - i64_MAX - 1, i64_MAX)
    ELSE from_str_radix(text, 10, 0 - i64_MAX - 1, i64_MAX)

parse_integer_log(c, text) ==
    IF parse_integer(text).some THEN c ELSE Log(c, "SchemaViolation", "integer")

\* `x.and_then(|val| parse_integer(ctx, &val))` for an optional attribute
parse_integer_opt(attrs, n) ==
    IF Has(attrs, n) THEN parse_integer(Get(attrs, n).v) ELSE None

parse_integer_opt_log(c, attrs, n) ==
    IF Has(attrs, n) THEN parse_integer_log(c, Get(attrs, n).v) ELSE c

\* xpath_attribute: the breadcrumb with "[@attribute]" appended
xpath_attribute(xp, attribute) ==
    Append(xp, CASE attribute = "blockSize" -> "[@blockSize]"
                 [] attribute = "texelsPerBlock" -> "[@texelsPerBlock]"
                 [] attribute = "packed" -> "[@packed]"
                 [] attribute = "planeIndex" -> "[@planeIndex]"
                 [] attribute = "index" -> "[@index]"
                 [] attribute = "widthDivisor" -> "[@widthDivisor]"
                 [] attribute = "heightDivisor" -> "[@heightDivisor]")

\* parse_int_attribute::<u8>: Some(v), or None with a ParseIntError logged
parse_int_attribute(text) == from_str_radix(text, 10, 0, u8_MAX)

parse_int_attribute_log(c, text, attribute) ==
    IF parse_int_attribute(text).some THEN c
    ELSE [c EXCEPT !.errors =
             Append(@, Diag("ParseIntError", xpath_attribute(c.xpath, attribute), attribute))]

EnumAttributes ==
    {"name", "comment", "type", "api", "extends", "value", "offset", "dir",
     "bitpos", "extnumber", "protect", "alias"}

\* EnumSpecOf with an offset that needs no `extends`
EnumSpecOf_offset_alone(a) ==
    LET extends == Get(a, "extends") IN
    IF Has(a, "alias")
    THEN Some([variant |-> "Alias", alias |-> Get(a, "alias").v, extends |-> extends])
    ELSE IF Has(a, "offset")
    THEN IF parse_integer(Get(a, "offset").v).some
         THEN Some([variant |-> "Offset", offset |-> parse_integer(Get(a, "offset").v).v,
                    extends |-> extends.v, extnumber |-> parse_integer_opt(a, "extnumber"),
                    dir |-> ~(Has(a, "dir") /\ Get(a, "dir").v = <<"-">>)])
         ELSE None
    ELSE IF Has(a, "bitpos")
    THEN IF parse_integer(Get(a, "bitpos").v).some
         THEN Some([variant |-> "Bitpos", bitpos |-> parse_integer(Get(a, "bitpos").v).v,
                    extends |-> extends])
         ELSE None
    ELSE IF Has(a, "value")
    THEN Some([variant |-> "Value", value |-> Get(a, "value").v, extends |-> extends])
    ELSE Some([variant |-> "None"])

\* EnumSpecOf with `value` tested before `bitpos` and read as a bit position
EnumSpecOf_value_as_bitpos(a) ==
    LET extends == Get(a, "extends") IN
    IF Has(a, "alias")
    THEN Some([variant |-> "Alias", alias |-> Get(a, "alias").v, extends |-> extends])
    ELSE IF Has(a, "offset")
    THEN IF parse_integer(Get(a, "offset").v).some /\ extends.some
         THEN Some([variant |-> "Offset", offset |-> parse_integer(Get(a, "offset").v).v,
                    extends |-> extends.v, extnumber |-> parse_integer_opt(a, "extnumber"),
                    dir |-> ~(Has(a, "dir") /\ Get(a, "dir").v = <<"-">>)])
         ELSE None
    ELSE IF Has(a, "value") \/ Has(a, "bitpos")
    THEN Some([variant |-> "Bitpos", bitpos |-> 0, extends |-> extends])
    ELSE Some([variant |-> "None"])

\* the EnumSpec that parse_enum builds once count <= 1, None when it drops the enum
EnumSpecOf(a) ==
    LET extends == Get(a, "extends") IN
    IF Has(a, "alias")
    THEN Some([variant |-> "Alias", alias |-> Get(a, "alias").v, extends |-> extends])
    ELSE IF Has(a, "offset")
    THEN IF parse_integer(Get(a, "offset").v).some /\ extends.some
         THEN Some([variant |-> "Offset", offset |-> parse_integer(Get(a, "offset").v).v,
                    extends |-> extends.v, extnumber |-> parse_integer_opt(a, "extnumber"),
                    dir |-> ~(Has(a, "dir") /\ Get(a, "dir").v = <<"-">>)])
         ELSE None
    ELSE IF Has(a, "bitpos")
    THEN IF parse_integer(Get(a, "bitpos").v).some
         THEN Some([variant |-> "Bitpos", bitpos |-> parse_integer(Get(a, "bitpos").v).v,
                    extends |-> extends])
         ELSE None
    ELSE IF Has(a, "value")
    THEN Some([variant |-> "Value", value |-> Get(a, "value").v, extends |-> extends])
    ELSE Some([variant |-> "None"])

\* the diagnostics of parse_enum between its count check and its return
EnumSpecLog(c, a) ==
    IF Has(a, "alias") THEN c
    ELSE IF Has(a, "offset")
    THEN IF ~parse_integer(Get(a, "offset").v).some
         THEN parse_integer_log(c, Get(a, "offset").v)
         ELSE IF Has(a, "extends") THEN parse_integer_opt_log(c, a, "extnumber")
         ELSE Log(c, "SchemaViolation", "Missing extends on enum with offset spec.")
    ELSE IF Has(a, "bitpos") THEN parse_integer_log(c, Get(a, "bitpos").v)
    ELSE c

\* EnumCount without `alias`
EnumCount_without_alias(a) ==
    Cardinality({n \in {"offset", "bitpos", "value"} : Has(a, n)})

EnumCount(a) ==
    Cardinality({n \in {"offset", "bitpos", "value", "alias"} : Has(a, n)})

parse_enum(c, in) ==
    LET a == in.attrs
        c1 == match_attributes(c, "parse_enum", a, EnumAttributes)
        spec == EnumSpecOf(a)
    IN
    CASE in.t = "Call" ->
           IF ~Has(a, "name") THEN Return(unwrap_attribute(c1, "name"), None)
           ELSE IF EnumCount(a) > 1
           THEN Call(Log(c1, "SchemaViolation",
                         "Unable to determine correct specification of enum"),
                     "consume_current_element", in)
           ELSE Call(SetTop(EnumSpecLog(c1, a),
                            [Top(c1) EXCEPT !.val =
                                IF spec.some
                                THEN Some([k |-> "Enum", name |-> Get(a, "name").v,
                                           spec |-> spec.v])
                                ELSE None]),
                     "consume_current_element", in)
      [] OTHER -> Return(c, Top(c).val)

parse_enums_child_unused(c, in) ==
    LET a == Top(c).attrs
        start == parse_integer(Get(a, "start").v)
    IN
    CASE in.t = "Call" ->
           Call(match_attributes(c, "parse_enums_child_unused", in.attrs,
                                 {"start", "end", "vendor", "comment"}),
                "consume_current_element", in)
      [] OTHER ->
           IF ~Has(a, "start") THEN Return(unwrap_attribute(c, "start"), None)
           ELSE IF ~start.some THEN Return(parse_integer_log(c, Get(a, "start").v), None)
           ELSE Return(parse_integer_opt_log(c, a, "end"),
                       Some([k |-> "Unused", start |-> start.v,
                             end |-> parse_integer_opt(a, "end")]))

\* the arm "enums" of parse_registry
enums(c, in) ==
    LET a == Top(c).attrs
        bw == parse_integer_opt(a, "bitwidth")
    IN
    CASE in.t = "Call" ->
           match_attributes(c, "enums", in.attrs,
                            {"name", "type", "start", "end", "vendor", "comment", "bitwidth"})
      [] in.t = "Ret" ->
           IF Top(c).arm = "comment"
           THEN PushKid(c, [k |-> "Comment", text |-> in.val.v])
           ELSE PushIfSome(c, in.val)
      [] in.t = "StartElement" /\ in.name = "enum" -> Arm(c, in, "parse_enum")
      [] in.t = "StartElement" /\ in.name = "unused" -> Arm(c, in, "parse_enums_child_unused")
      [] in.t = "StartElement" /\ in.name = "comment" -> Arm(c, in, "parse_text_element")
      [] OTHER ->
           LET c1 == match_elements(c, in)
               c2 == parse_integer_opt_log(
                         parse_integer_opt_log(
                             parse_integer_opt_log(c1, a, "start"), a, "end"), a, "bitwidth")
           IN IF c1.brk
              THEN Return(NoBrk(c2),
                          Some([k |-> "Enums", children |-> Top(c1).kids,
                                start |-> parse_integer_opt(a, "start"),
                                end |-> parse_integer_opt(a, "end"),
                                bitwidth |-> IF bw.some THEN Some(bw.v % (u32_MAX + 1))
                                             ELSE None]))
              ELSE c1

\* a panic!, unreachable!, unimplemented!, failed assert or unwrap: the parse
\* call does not return
Panic(c) ==
    [c EXCEPT !.stack = <<>>, !.brk = FALSE, !.sig = NoSig,
              !.result = [st |-> "panic", registry |-> <<>>, errors |-> <<>>]]

\* the two arms of parse_feature and parse_extension
RequireRemove ==
    [require |-> "parse_extension_item_require", remove |-> "parse_extension_item_remove"]

parse_feature(c, in) ==
    LET a == Top(c).attrs
        m == FirstMissing(a, <<"api", "name", "number">>)
    IN
    CASE in.t = "Call" ->
           match_attributes(c, "parse_feature", in.attrs,
                            {"api", "name", "number", "protect", "comment"})
      [] in.t = "Ret" -> PushIfSome(c, in.val)
      [] in.t = "StartElement" /\ in.name \in DOMAIN RequireRemove ->
           Arm(c, in, RequireRemove[in.name])
      [] OTHER ->
           LET c1 == match_elements(c, in)
           IN IF ~c1.brk THEN c1
              ELSE IF m # "" THEN Return(unwrap_attribute(NoBrk(c1), m), None)
              ELSE Return(NoBrk(c1), Some([k |-> "Feature", name |-> Get(a, "name").v,
                                           children |-> Top(c1).kids]))

parse_extensions(c, in) ==
    Section(c, in, "parse_extensions", "Extensions", "extension", "parse_extension")

parse_extension(c, in) ==
    LET a == Top(c).attrs
        c1 == match_attributes(c, "parse_extension", a,
                 {"name", "comment", "number", "protect", "platform", "author", "contact",
                  "type", "requires", "requiresCore", "supported", "deprecatedby",
                  "promotedto", "provisional", "obsoletedby", "specialuse", "sortorder"})
        c2 == parse_integer_opt_log(c1, a, "number")
        c3 == IF Has(a, "provisional") /\ Get(a, "provisional").v # <<"t", "r", "u", "e">>
              THEN Log(c2, "SchemaViolation", "Unexpected value of 'provisional' attribute")
              ELSE c2
        c4 == parse_integer_opt_log(c3, a, "sortorder")
    IN
    CASE in.t = "Call" ->
           IF ~Has(a, "name") THEN Return(unwrap_attribute(c4, "name"), None) ELSE c4
      [] in.t = "Ret" -> PushIfSome(c, in.val)
      [] in.t = "StartElement" /\ in.name \in DOMAIN RequireRemove ->
           Arm(c, in, RequireRemove[in.name])
      [] OTHER ->
           LET c5 == match_elements(c, in)
           IN IF c5.brk
              THEN Return(NoBrk(c5),
                          Some([k |-> "Extension", name |-> Get(a, "name").v,
                                number |-> parse_integer_opt(a, "number"),
                                provisional |-> Get(a, "provisional") = Some(<<"t", "r", "u", "e">>),
                                children |-> Top(c5).kids]))
              ELSE c5

\* parse_extension_item_require and parse_extension_item_remove: their own
\* loop, every child start-tag going to parse_interface_item
ExtensionItem(c, in, fn, arms, kind) ==
    CASE in.t = "Call" -> match_attributes(c, fn, in.attrs, arms)
      [] in.t = "Ret" -> PushIfSome(c, in.val)
      [] in.t = "StartElement" -> Arm(c, in, "parse_interface_item")
      [] in.t = "EndElement" ->
           LET c1 == pop_element(c)
           IN Return(c1, Some([k |-> kind, items |-> Top(c1).kids]))
      [] in.t \in {"None", "Err"} -> Return(c, Some([k |-> kind, items |-> Top(c).kids]))
      [] OTHER -> c

parse_extension_item_require(c, in) ==
    ExtensionItem(c, in, "parse_extension_item_require",
                  {"api", "profile", "extension", "feature", "comment"}, "Require")

parse_extension_item_remove(c, in) ==
    ExtensionItem(c, in, "parse_extension_item_remove",
                  {"api", "profile", "comment"}, "Remove")

\* parse_interface_item; `name` is the arm its caller recorded
parse_interface_item(c, in) ==
    LET name == c.stack[Len(c.stack) - 1].arm
        a == Top(c).attrs
        c1 == match_attributes(c, "parse_interface_item", a, {"name", "comment"})
    IN
    CASE in.t = "Call" /\ name = "comment" -> Call(c, "parse_text_element", in)
      [] in.t = "Call" /\ name \in {"type", "command"} ->
           IF ~Has(a, "name") THEN Return(unwrap_attribute(c1, "name"), None)
           ELSE Call(c1, "consume_current_element", in)
      [] in.t = "Call" /\ name = "enum" -> Call(c, "parse_enum", in)
      [] in.t = "Call" -> Return(Log(c, "UnexpectedElement", name), None)
      [] in.t = "Ret" /\ name = "comment" ->
           Return(c, Some([k |-> "Comment", text |-> in.val.v]))
      [] in.t = "Ret" /\ name = "type" ->
           Return(c, Some([k |-> "Type", name |-> Get(a, "name").v]))
      [] in.t = "Ret" /\ name = "command" ->
           Return(c, Some([k |-> "Command", name |-> Get(a, "name").v]))
      [] OTHER -> Return(c, in.val)

parse_formats(c, in) ==
    Section(c, in, "parse_formats", "Formats", "format", "parse_format")

FormatChildren ==
    [component |-> "parse_format_component", plane |-> "parse_format_plane",
     spirvimageformat |-> "parse_format_spirvimageformat"]

parse_format(c, in) ==
    LET a == Top(c).attrs
        m == FirstMissing(a, <<"name", "class", "blockSize", "texelsPerBlock">>)
        c1 == match_attributes(c, "parse_format", a,
                 {"name", "class", "blockSize", "texelsPerBlock", "blockExtent",
                  "packed", "compressed", "chroma"})
        blockSize == parse_int_attribute(Get(a, "blockSize").v)
        texelsPerBlock == parse_int_attribute(Get(a, "texelsPerBlock").v)
        packed == IF Has(a, "packed") THEN parse_int_attribute(Get(a, "packed").v) ELSE None
    IN
    CASE in.t = "Call" ->
           IF m # "" THEN Return(unwrap_attribute(c1, m), None) ELSE c1
      [] in.t = "Ret" -> PushIfSome(c, in.val)
      [] in.t = "StartElement" /\ in.name \in DOMAIN FormatChildren ->
           Arm(c, in, FormatChildren[in.name])
      [] OTHER ->
           LET c2 == match_elements(c, in)
               c3 == parse_int_attribute_log(NoBrk(c2), Get(a, "blockSize").v, "blockSize")
               c4 == parse_int_attribute_log(c3, Get(a, "texelsPerBlock").v, "texelsPerBlock")
               c5 == IF Has(a, "packed")
                     THEN parse_int_attribute_log(c4, Get(a, "packed").v, "packed") ELSE c4
           IN IF ~c2.brk THEN c2
              ELSE IF ~blockSize.some \/ ~texelsPerBlock.some \/ (Has(a, "packed") /\ ~packed.some)
              THEN Return(c5, None)
              ELSE Return(c5, Some([k |-> "Format", name |-> Get(a, "name").v,
                                    blockSize |-> blockSize.v,
                                    texelsPerBlock |-> texelsPerBlock.v,
                                    packed |-> packed, children |-> Top(c2).kids]))

\* A builder that unwraps its required attributes before it consumes the
\* element, then parses the attributes `ints` as u8: parse_format_component,
\* parse_format_plane, parse_format_spirvimageformat.
RECURSIVE IntsLog(_, _, _)
IntsLog(c, a, ints) ==
    IF ints = <<>> THEN c
    ELSE IntsLog(IF Has(a, Head(ints))
                 THEN parse_int_attribute_log(c, Get(a, Head(ints)).v, Head(ints)) ELSE c,
                 a, Tail(ints))

UnwrapThenConsume(c, in, fn, arms, required, ints, kind) ==
    LET a == Top(c).attrs
        m == FirstMissing(a, required)
        c1 == match_attributes(c, fn, a, arms)
        bad == \E i \in 1..Len(ints) :
                   Has(a, ints[i]) /\ ~parse_int_attribute(Get(a, ints[i]).v).some
    IN
    CASE in.t = "Call" ->
           IF m # "" THEN Return(unwrap_attribute(c1, m), None)
           ELSE Call(c1, "consume_current_element", in)
      [] OTHER ->
           IF bad THEN Return(IntsLog(c, a, ints), None)
           ELSE Return(c, Some([k |-> kind, attrs |-> a]))

parse_format_component(c, in) ==
    UnwrapThenConsume(c, in, "parse_format_component",
                      {"name", "bits", "numericFormat", "planeIndex"},
                      <<"name", "bits", "numericFormat">>, <<"planeIndex">>, "Component")

parse_format_plane(c, in) ==
    UnwrapThenConsume(c, in, "parse_format_plane",
                      {"index", "widthDivisor", "heightDivisor", "compatible"},
                      <<"index", "widthDivisor", "heightDivisor", "compatible">>,
                      <<"index", "widthDivisor", "heightDivisor">>, "Plane")

parse_format_spirvimageformat(c, in) ==
    UnwrapThenConsume(c, in, "parse_format_spirvimageformat", {"name"}, <<"name">>,
                      <<>>, "SpirvImageFormat")

parse_spirvextensions(c, in) ==
    Section(c, in, "parse_spirvextensions", "SpirvExtensions", "spirvextension",
            "parse_spirvextension")

parse_spirvcapabilities(c, in) ==
    Section(c, in, "parse_spirvcapabilities", "SpirvCapabilities", "spirvcapability",
            "parse_spirvcapability")

\* parse_spirvextension and parse_spirvcapability: the loop over <enable>, and
\* only then the unwrap of `name`
SpirvItem(c, in, fn, kind) ==
    LET a == Top(c).attrs IN
    CASE in.t = "Call" -> match_attributes(c, fn, in.attrs, {"name"})
      [] in.t = "Ret" -> PushIfSome(c, in.val)
      [] in.t = "StartElement" /\ in.name = "enable" -> Arm(c, in, "parse_enable")
      [] OTHER ->
           LET c1 == match_elements(c, in)
           IN IF ~c1.brk THEN c1
              ELSE IF ~Has(a, "name") THEN Return(unwrap_attribute(NoBrk(c1), "name"), None)
              ELSE Return(NoBrk(c1), Some([k |-> kind, name |-> Get(a, "name").v,
                                           enables |-> Top(c1).kids]))

parse_spirvextension(c, in) == SpirvItem(c, in, "parse_spirvextension", "SpirvExtension")

parse_spirvcapability(c, in) == SpirvItem(c, in, "parse_spirvcapability", "SpirvCapability")

parse_enable(c, in) ==
    LET a == Top(c).attrs IN
    CASE in.t = "Call" ->
           Call(match_attributes(c, "parse_enable", in.attrs,
                    {"version", "extension", "struct", "feature", "requires", "alias",
                     "property", "member", "value"}),
                "consume_current_element", in)
      [] OTHER ->
           IF Has(a, "version") THEN Return(c, Some([k |-> "Version"]))
           ELSE IF Has(a, "extension") THEN Return(c, Some([k |-> "Extension"]))
           ELSE IF Has(a, "struct")
           THEN IF ~Has(a, "feature") THEN Return(unwrap_attribute(c, "feature"), None)
                ELSE Return(c, Some([k |-> "Feature"]))
           ELSE IF Has(a, "property")
           THEN IF FirstMissing(a, <<"member", "value">>) # ""
                THEN Return(unwrap_attribute(c, FirstMissing(a, <<"member", "value">>)), None)
                ELSE Return(c, Some([k |-> "Property"]))
           ELSE Panic(c)

-----------------------------------------------------------------------------
(* The declaration micro-grammar. *)

\* str::find: the first position where p occurs in s, 0 when there is none
find(s, p) ==
    LET hits == {i \in 1..(Len(s) - Len(p) + 1) : SubSeq(s, i, i + Len(p) - 1) = p}
    IN IF hits = {} THEN 0 ELSE CHOOSE i \in hits : \A j \in hits : i <= j

\* str::split_once
split_once(s, p) ==
    LET i == find(s, p)
    IN IF i = 0 THEN [some |-> FALSE, l |-> <<>>, r |-> <<>>]
       ELSE [some |-> TRUE, l |-> SubSeq(s, 1, i - 1),
             r |-> SubSeq(s, i + Len(p), Len(s))]

\* str::split, collected
RECURSIVE split(_, _)
split(s, p) ==
    LET o == split_once(s, p)
    IN IF o.some THEN <<o.l>> \o split(o.r, p) ELSE <<s>>

T_const == <<"c", "o", "n", "s", "t">>

T_struct == <<"s", "t", "r", "u", "c", "t">>

T_true == <<"t", "r", "u", "e">>

T_false == <<"f", "a", "l", "s", "e">>

\* parse_pre_type_tag_text that takes the two keywords in either order
parse_pre_type_tag_text_either_order(text) ==
    LET t0 == trim(text)
        s0 == strip_prefix(t0, T_struct)
        t1 == IF s0.some THEN trim_start(s0.v) ELSE t0
        c0 == strip_prefix(t1, T_const)
        t2 == IF c0.some THEN trim_start(c0.v) ELSE t1
        s1 == strip_prefix(t2, T_struct)
        t3 == IF s1.some /\ ~s0.some THEN trim_start(s1.v) ELSE t2
    IN [ok |-> t3 = <<>>, is_const |-> c0.some, is_struct |-> s0.some \/ s1.some]

\* parse_pre_type_tag_text; ok is FALSE when its assert_eq! fails
parse_pre_type_tag_text(text) ==
    LET t0 == trim(text)
        c0 == strip_prefix(t0, T_const)
        t1 == IF c0.some THEN trim_start(c0.v) ELSE t0
        s0 == strip_prefix(t1, T_struct)
        t2 == IF s0.some THEN trim_start(s0.v) ELSE t1
    IN [ok |-> t2 = <<>>, is_const |-> c0.some, is_struct |-> s0.some]

ParsedPreTypeTag_default == [ok |-> TRUE, is_const |-> FALSE, is_struct |-> FALSE]

\* parse_post_type_tag_text with a single pointer that is never const
parse_post_type_tag_text_mutable_single(text, is_const) ==
    LET t0 == trim(text)
        p1 == strip_prefix(t0, <<"*">>)
        t1 == trim_start(p1.v)
        pc == strip_prefix(t1, T_const)
        p2 == strip_prefix(trim_start(pc.v), <<"*">>)
        p3 == strip_prefix(t1, <<"*">>)
    IN IF ~p1.some THEN [ok |-> TRUE, kind |-> None, rest |-> t0]
       ELSE IF pc.some
       THEN [ok |-> p2.some,
             kind |-> Some([ptr |-> "Double", is_const |-> is_const, inner_is_const |-> TRUE]),
             rest |-> trim_start(p2.v)]
       ELSE IF p3.some
       THEN [ok |-> TRUE,
             kind |-> Some([ptr |-> "Double", is_const |-> is_const, inner_is_const |-> FALSE]),
             rest |-> trim_start(p3.v)]
       ELSE [ok |-> TRUE, kind |-> Some([ptr |-> "Single", is_const |-> FALSE]),
             rest |-> t1]

\* parse_post_type_tag_text; ok is FALSE when its expect fails
parse_post_type_tag_text(text, is_const) ==
    LET t0 == trim(text)
        p1 == strip_prefix(t0, <<"*">>)
        t1 == trim_start(p1.v)
        pc == strip_prefix(t1, T_const)
        p2 == strip_prefix(trim_start(pc.v), <<"*">>)
        p3 == strip_prefix(t1, <<"*">>)
    IN IF ~p1.some THEN [ok |-> TRUE, kind |-> None, rest |-> t0]
       ELSE IF pc.some
       THEN [ok |-> p2.some,
             kind |-> Some([ptr |-> "Double", is_const |-> is_const, inner_is_const |-> TRUE]),
             rest |-> trim_start(p2.v)]
       ELSE IF p3.some
       THEN [ok |-> TRUE,
             kind |-> Some([ptr |-> "Double", is_const |-> is_const, inner_is_const |-> FALSE]),
             rest |-> trim_start(p3.v)]
       ELSE [ok |-> TRUE, kind |-> Some([ptr |-> "Single", is_const |-> is_const]),
             rest |-> t1]

\* the `while let` of parse_array_shape_text, from the text after a '['
RECURSIVE array_shape_loop(_, _)
array_shape_loop(text, shape) ==
    LET o == split_once(text, <<"]">>)
        n == from_str_radix(o.l, 10, 0, i64_MAX)
        more == strip_prefix(trim_start(o.r), <<"[">>)
        shape1 == Append(shape, [len |-> "Static", n |-> n.v])
    IN IF ~o.some THEN [ok |-> TRUE, hungry |-> TRUE, shape |-> shape]
       ELSE IF ~n.some THEN [ok |-> FALSE, hungry |-> FALSE, shape |-> shape]
       ELSE IF more.some THEN array_shape_loop(more.v, shape1)
       ELSE [ok |-> o.r = <<>>, hungry |-> FALSE, shape |-> shape1]

\* parse_array_shape_text that keeps only the last of several dimensions
parse_array_shape_text_last_only(text, shape) ==
    LET b == strip_prefix(trim(text), <<"[">>)
    IN IF b.some
       THEN [array_shape_loop(b.v, shape) EXCEPT !.shape = IF Len(@) > 1 THEN <<Last(@)>> ELSE @]
       ELSE [ok |-> TRUE, hungry |-> FALSE, shape |-> shape]

\* parse_array_shape_text: hungry is its result, shape the vector it extends,
\* ok is FALSE when its unwrap or its assert_eq! fails
parse_array_shape_text(text, shape) ==
    LET b == strip_prefix(trim(text), <<"[">>)
    IN IF b.some THEN array_shape_loop(b.v, shape)
       ELSE [ok |-> TRUE, hungry |-> FALSE, shape |-> shape]

\* DynamicLength that splits a field reference at its last `->`
DynamicLength_last_arrow(v) ==
    LET n == from_str_radix(v, 10, 0, i64_MAX)
        parts == split(v, <<"-", ">">>)
        RECURSIVE join(_)
        join(q) == IF Len(q) = 1 THEN q[1] ELSE q[1] \o <<"-", ">">> \o join(Tail(q))
    IN IF v = <<"n", "u", "l", "l", "-", "t", "e", "r", "m", "i", "n", "a", "t", "e", "d">>
       THEN [len |-> "NullTerminated"]
       ELSE IF n.some THEN [len |-> "Static", n |-> n.v]
       ELSE IF Len(parts) > 1
       THEN [len |-> "ParameterizedField", parameter |-> join(Front(parts)),
             field |-> Last(parts)]
       ELSE [len |-> "Parameterized", name |-> v]

\* one value of the `len` attribute
DynamicLength(v) ==
    LET n == from_str_radix(v, 10, 0, i64_MAX)
        f == split_once(v, <<"-", ">">>)
    IN IF v = <<"n", "u", "l", "l", "-", "t", "e", "r", "m", "i", "n", "a", "t", "e", "d">>
       THEN [len |-> "NullTerminated"]
       ELSE IF n.some THEN [len |-> "Static", n |-> n.v]
       ELSE IF f.some THEN [len |-> "ParameterizedField", parameter |-> f.l, field |-> f.r]
       ELSE [len |-> "Parameterized", name |-> v]

T_latexmath == <<"l", "a", "t", "e", "x", "m", "a", "t", "h", ":">>

\* the dynamic_shape of parse_name_with_type; ok is FALSE when it panics
dynamic_shape(a) ==
    LET len == Get(a, "len")
        altlen == Get(a, "altlen")
        latex == IF len.some THEN strip_prefix(len.v, T_latexmath) ELSE None
        it == split(len.v, <<",">>)
    IN IF latex.some
       THEN [ok |-> TRUE,
             v |-> IF altlen.some
                   THEN Some([shape |-> "Expression", latex_expr |-> Some(latex.v),
                              c_expr |-> altlen.v])
                   ELSE None]
       ELSE IF altlen.some
       THEN [ok |-> TRUE,
             v |-> Some([shape |-> "Expression", latex_expr |-> None, c_expr |-> altlen.v])]
       ELSE IF len.some
       THEN IF Len(it) = 1
            THEN [ok |-> TRUE, v |-> Some([shape |-> "Single", outer |-> DynamicLength(it[1])])]
            ELSE [ok |-> Len(it) = 2,
                  v |-> Some([shape |-> "Double", outer |-> DynamicLength(it[1]),
                              inner |-> DynamicLength(it[2])])]
       ELSE [ok |-> TRUE, v |-> None]

is_bool(v) == v \in {T_true, T_false}

\* the optional of parse_name_with_type; the values after the second are
\* never parsed
optional(a) ==
    LET o == Get(a, "optional")
        it == split(o.v, <<",">>)
    IN IF ~o.some THEN [ok |-> TRUE, v |-> None]
       ELSE IF Len(it) = 1
       THEN [ok |-> is_bool(it[1]),
             v |-> Some([opt |-> "Single", outer |-> it[1] = T_true])]
       ELSE [ok |-> is_bool(it[1]) /\ is_bool(it[2]),
             v |-> Some([opt |-> "Double", outer |-> it[1] = T_true,
                         inner |-> it[2] = T_true])]

noautovalidity(a) ==
    LET o == Get(a, "noautovalidity")
    IN [ok |-> ~o.some \/ o.v = T_true, v |-> o.some]

\* ExternSyncField that keeps the separator with the field
ExternSyncField_with_separator(value, name) == strip_prefix(value, name)

\* one field of the `externsync` attribute, relative to the declared name
ExternSyncField(value, name) ==
    LET v == strip_prefix(value, name)
        f1 == strip_prefix(v.v, <<"-", ">">>)
        f2 == strip_prefix(v.v, <<"[", "]", ".">>)
        f3 == strip_prefix(v.v, <<".">>)
        f4 == strip_prefix(v.v, <<":", ":">>)
    IN IF ~v.some THEN None
       ELSE IF f1.some THEN f1 ELSE IF f2.some THEN f2
       ELSE IF f3.some THEN f3 ELSE f4

\* the externsync of parse_name_with_type
externsync(a, name) ==
    LET o == Get(a, "externsync")
        it == split(o.v, <<",">>)
    IN IF ~o.some THEN [ok |-> TRUE, v |-> None]
       ELSE IF o.v = T_true THEN [ok |-> TRUE, v |-> Some([sync |-> "Value"])]
       ELSE [ok |-> \A i \in 1..Len(it) : ExternSyncField(it[i], name).some,
             v |-> Some([sync |-> "Fields",
                         fields |-> [i \in 1..Len(it) |-> ExternSyncField(it[i], name).v]])]

\* parse_name_with_type keeps its locals in the frame's loc; loc.phase is the
\* point of the function body that takes the next event
SetLoc(c, loc) == SetTop(c, [Top(c) EXCEPT !.loc = loc])

AddCode(c, text) == SetTop(c, [Top(c) EXCEPT !.code = @ \o text])

\* the value parse_name_with_type returns, with what it appended to `code`
\* and what its hook recorded
NwtReturn(c, val) ==
    Return(c, [some |-> val.some, v |-> val.v, code |-> Top(c).code,
               markup |-> Top(c).loc.markup])

\* the end of parse_name_with_type: externsync, then the NameWithType
nwt_return(c) ==
    LET f == Top(c)
        l == f.loc
        es == externsync(f.attrs, l.name)
    IN IF ~es.ok THEN Panic(c)
       ELSE NwtReturn(c, Some([type_name |-> l.type_name, pointer_kind |-> l.pointer_kind,
                               is_struct |-> l.pre.is_struct,
                               bitfield_size |-> l.bitfield_size, name |-> l.name,
                               array_shape |-> l.array_shape,
                               dynamic_shape |-> dynamic_shape(f.attrs).v,
                               externsync |-> es.v, optional |-> optional(f.attrs).v,
                               noautovalidity |-> noautovalidity(f.attrs).v,
                               objecttype |-> Get(f.attrs, "objecttype")]))

\* the last loop of parse_name_with_type with a hook that takes <comment>
\* whoever the caller is
nwt_final_any_caller(c, e) ==
    LET l == Top(c).loc
        c1 == push_element(c, e.name)
    IN
    CASE e.t \in {"Whitespace", "Characters"} -> AddCode(c, e.text)
      [] e.t = "StartElement" ->
           IF e.name = "comment"
           THEN Call(SetLoc(c1, [l EXCEPT !.phase = "extra_comment"]),
                     "parse_text_element", e)
           ELSE Call(SetLoc(Log(c1, "UnexpectedElement", e.name),
                            [l EXCEPT !.phase = "extra_skip"]),
                     "consume_current_element", e)
      [] e.t = "EndElement" -> nwt_return(pop_element(c))
      [] e.t \in {"None", "Err"} -> nwt_return(c)
      [] OTHER -> c

\* the last loop of parse_name_with_type: text, the elements its hook
\* handle_extra takes or rejects, and the end-tag.  The hook of a <member>
\* (parse_type) takes <comment>; the hook of <proto> and <param> takes nothing.
nwt_final(c, e) ==
    LET l == Top(c).loc
        c1 == push_element(c, e.name)
    IN
    CASE e.t \in {"Whitespace", "Characters"} -> AddCode(c, e.text)
      [] e.t = "StartElement" ->
           IF c.stack[Len(c.stack) - 1].fn = "parse_type" /\ e.name = "comment"
           THEN Call(SetLoc(c1, [l EXCEPT !.phase = "extra_comment"]),
                     "parse_text_element", e)
           ELSE Call(SetLoc(Log(c1, "UnexpectedElement", e.name),
                            [l EXCEPT !.phase = "extra_skip"]),
                     "consume_current_element", e)
      [] e.t = "EndElement" -> nwt_return(pop_element(c))
      [] e.t \in {"None", "Err"} -> nwt_return(c)
      [] OTHER -> c

\* `while hungry`: the <enum> of a symbolic array length
nwt_hungry(c, e) ==
    IF e.t = "StartElement" /\ e.name = "enum"
    THEN Call(SetLoc(push_element(c, e.name), [Top(c).loc EXCEPT !.phase = "enum_text"]),
              "parse_text_element", e)
    ELSE NwtReturn(Log(c, "MissingElement", "enum"), None)

\* `while hungry`: the text that closes the symbolic array length
nwt_hungry_close(c, e) ==
    LET l == Top(c).loc
        t == strip_prefix(trim(e.text), <<"]">>)
        sh == parse_array_shape_text(trim_start(t.v), l.array_shape.v)
    IN IF e.t = "Characters"
       THEN IF ~t.some \/ ~sh.ok THEN Panic(c)
            ELSE SetLoc(AddCode(c, e.text),
                        [l EXCEPT !.array_shape = Some(sh.shape),
                                  !.phase = IF sh.hungry THEN "hungry" ELSE "final"])
       ELSE NwtReturn(Log(c, "MissingCharacters", ""), None)

\* the text after <name>, with an empty array shape beside a bitfield width
nwt_tail_shape_beside_bitfield(c, e) ==
    LET l == Top(c).loc
        t == trim(e.text)
        bits == strip_prefix(t, <<":">>)
        n == from_str_radix(bits.v, 10, 0, u8_MAX)
        sh == parse_array_shape_text(t, <<>>)
    IN IF e.t = "Characters"
       THEN IF bits.some
            THEN IF ~n.some \/ n.v = 0 THEN Panic(c)
                 ELSE SetLoc(AddCode(c, e.text),
                             [l EXCEPT !.bitfield_size = Some(n.v),
                                       !.array_shape = Some(<<>>), !.phase = "final"])
            ELSE IF ~sh.ok THEN Panic(c)
                 ELSE SetLoc(AddCode(c, e.text),
                             [l EXCEPT !.array_shape = Some(sh.shape),
                                       !.phase = IF sh.hungry THEN "hungry" ELSE "final"])
       ELSE nwt_final(SetLoc(c, [l EXCEPT !.phase = "final"]), e)

\* the text after <name>: a bitfield width or an array shape
nwt_tail(c, e) ==
    LET l == Top(c).loc
        t == trim(e.text)
        bits == strip_prefix(t, <<":">>)
        n == from_str_radix(bits.v, 10, 0, u8_MAX)
        sh == parse_array_shape_text(t, <<>>)
    IN IF e.t = "Characters"
       THEN IF bits.some
            THEN IF ~n.some \/ n.v = 0 THEN Panic(c)
                 ELSE SetLoc(AddCode(c, e.text),
                             [l EXCEPT !.bitfield_size = Some(n.v), !.phase = "final"])
            ELSE IF ~sh.ok THEN Panic(c)
                 ELSE SetLoc(AddCode(c, e.text),
                             [l EXCEPT !.array_shape = Some(sh.shape),
                                       !.phase = IF sh.hungry THEN "hungry" ELSE "final"])
       ELSE nwt_final(SetLoc(c, [l EXCEPT !.phase = "final"]), e)

nwt_name(c, e) ==
    IF e.t = "StartElement" /\ e.name = "name"
    THEN Call(SetLoc(push_element(c, e.name), [Top(c).loc EXCEPT !.phase = "name_text"]),
              "parse_text_element", e)
    ELSE NwtReturn(Log(c, "MissingElement", "name"), None)

\* the text between <type> and <name>: the pointer kind
nwt_pointer(c, e) ==
    LET l == Top(c).loc
        r == parse_post_type_tag_text(e.text, l.pre.is_const)
    IN IF e.t = "Characters"
       THEN IF ~r.ok \/ r.rest # <<>> THEN Panic(c)
            ELSE SetLoc(AddCode(c, e.text),
                        [l EXCEPT !.pointer_kind = r.kind, !.phase = "name"])
       ELSE nwt_name(c, e)

nwt_post_whitespace(c, e) ==
    IF e.t = "Whitespace"
    THEN SetLoc(AddCode(c, e.text), [Top(c).loc EXCEPT !.phase = "pointer"])
    ELSE nwt_pointer(c, e)

nwt_type(c, e) ==
    IF e.t = "StartElement" /\ e.name = "type"
    THEN Call(SetLoc(push_element(c, e.name), [Top(c).loc EXCEPT !.phase = "type_text"]),
              "parse_text_element", e)
    ELSE NwtReturn(Log(c, "MissingElement", "type"), None)

\* the text before <type>: const and struct
nwt_pre(c, e) ==
    LET l == Top(c).loc
        r == parse_pre_type_tag_text(e.text)
    IN IF e.t = "Characters"
       THEN IF ~r.ok THEN Panic(c)
            ELSE SetLoc(AddCode(c, e.text), [l EXCEPT !.pre = r, !.phase = "type"])
       ELSE nwt_type(c, e)

nwt_pre_whitespace(c, e) ==
    IF e.t = "Whitespace"
    THEN SetLoc(AddCode(c, e.text), [Top(c).loc EXCEPT !.phase = "pre"])
    ELSE nwt_pre(c, e)

parse_name_with_type(c, in) ==
    LET f == Top(c)
        l == f.loc
    IN
    CASE in.t = "Call" ->
           IF ~dynamic_shape(f.attrs).ok \/ ~optional(f.attrs).ok \/ ~noautovalidity(f.attrs).ok
           THEN Panic(c)
           ELSE SetLoc(c, [phase |-> "pre_whitespace", pre |-> ParsedPreTypeTag_default,
                           type_name |-> <<>>, pointer_kind |-> None, name |-> <<>>,
                           bitfield_size |-> None, array_shape |-> None, markup |-> <<>>])
      [] in.t = "Ret" /\ l.phase = "type_text" ->
           SetLoc(AddCode(c, in.val.v),
                  [l EXCEPT !.type_name = in.val.v, !.phase = "post_whitespace"])
      [] in.t = "Ret" /\ l.phase = "name_text" ->
           SetLoc(AddCode(c, in.val.v), [l EXCEPT !.name = in.val.v, !.phase = "tail"])
      [] in.t = "Ret" /\ l.phase = "enum_text" ->
           SetLoc(AddCode(c, in.val.v),
                  [l EXCEPT !.array_shape =
                                Some(Append(@.v, [len |-> "Constant", name |-> in.val.v])),
                            !.phase = "hungry_close"])
      [] in.t = "Ret" /\ l.phase = "extra_comment" ->
           SetLoc(c, [l EXCEPT !.markup = Append(@, [k |-> "Comment", text |-> in.val.v]),
                               !.phase = "final"])
      [] in.t = "Ret" /\ l.phase = "extra_skip" -> SetLoc(c, [l EXCEPT !.phase = "final"])
      [] l.phase = "pre_whitespace" -> nwt_pre_whitespace(c, in)
      [] l.phase = "pre" -> nwt_pre(c, in)
      [] l.phase = "type" -> nwt_type(c, in)
      [] l.phase = "post_whitespace" -> nwt_post_whitespace(c, in)
      [] l.phase = "pointer" -> nwt_pointer(c, in)
      [] l.phase = "name" -> nwt_name(c, in)
      [] l.phase = "tail" -> nwt_tail(c, in)
      [] l.phase = "hungry" -> nwt_hungry(c, in)
      [] l.phase = "hungry_close" -> nwt_hungry_close(c, in)
      [] l.phase = "final" -> nwt_final(c, in)

-----------------------------------------------------------------------------
(* Types and commands. *)

T_VK_DEFINE_HANDLE ==
    <<"V", "K", "_", "D", "E", "F", "I", "N", "E", "_", "H", "A", "N", "D", "L", "E">>

T_VK_DEFINE_NON_DISPATCHABLE_HANDLE ==
    <<"V", "K", "_", "D", "E", "F", "I", "N", "E", "_", "N", "O", "N", "_", "D", "I", "S",
      "P", "A", "T", "C", "H", "A", "B", "L", "E", "_", "H", "A", "N", "D", "L", "E">>

ends_with(s, p) == Len(s) >= Len(p) /\ SubSeq(s, Len(s) - Len(p) + 1, Len(s)) = p

\* str::strip_suffix
strip_suffix(s, p) ==
    IF ends_with(s, p)
    THEN [some |-> TRUE, v |-> SubSeq(s, 1, Len(s) - Len(p))]
    ELSE [some |-> FALSE, v |-> <<>>]

T_typedef == <<"t", "y", "p", "e", "d", "e", "f">>

T_VKAPI_PTR == <<"V", "K", "A", "P", "I", "_", "P", "T", "R">>

\* the text before <name> in a funcpointer: `typedef <type> (VKAPI_PTR *`;
\* ok is FALSE when one of its expects fails
funcptr_return_type(text) ==
    LET t1 == strip_prefix(trim(text), T_typedef)
        t2 == strip_suffix(trim_start(t1.v), <<"*">>)
        t3 == strip_suffix(trim_end(t2.v), T_VKAPI_PTR)
        t4 == strip_suffix(trim_end(t3.v), <<"(">>)
        type_str == trim_end(t4.v)
        p == strip_suffix(type_str, <<"*">>)
    IN [ok |-> t1.some /\ t2.some /\ t3.some /\ t4.some,
        type_name |-> IF p.some THEN trim_end(p.v) ELSE type_str,
        pointer_kind |-> IF p.some THEN Some([ptr |-> "Single", is_const |-> FALSE])
                         ELSE None]

\* the text after <name> in a funcpointer, when it does not end with ';':
\* `)(` and the const/struct of the first parameter
funcptr_open_params(text) ==
    LET t1 == strip_prefix(trim(text), <<")">>)
        t2 == strip_prefix(trim_start(t1.v), <<"(">>)
        pre == parse_pre_type_tag_text(trim_start(t2.v))
    IN [pre EXCEPT !.ok = t1.some /\ t2.some /\ pre.ok]

\* funcptr_param that leaves the closing `);` on the last name
funcptr_param_keeps_close(text, pre) ==
    LET r == parse_post_type_tag_text(text, pre.is_const)
        o == split_once(r.rest, <<",">>)
    IN [ok |-> r.ok, pointer_kind |-> r.kind,
        name |-> IF o.some THEN o.l ELSE r.rest,
        rest |-> IF o.some THEN Some(o.r) ELSE None]

\* the text after the <type> of a funcpointer parameter: pointer kind, name,
\* and what follows the comma
funcptr_param(text, pre) ==
    LET r == parse_post_type_tag_text(text, pre.is_const)
        o == split_once(r.rest, <<",">>)
        e == strip_suffix(r.rest, <<")", ";">>)
    IN [ok |-> r.ok, pointer_kind |-> r.kind,
        name |-> IF o.some THEN o.l ELSE IF e.some THEN e.v ELSE r.rest,
        rest |-> IF o.some THEN Some(o.r) ELSE None]

FuncptrDecl(type_name, pointer_kind, is_struct, name) ==
    [type_name |-> type_name, pointer_kind |-> pointer_kind, is_struct |-> is_struct,
     bitfield_size |-> None, name |-> name, array_shape |-> None, dynamic_shape |-> None,
     externsync |-> None, optional |-> None, noautovalidity |-> FALSE,
     objecttype |-> None]

parse_type_funcptr(c, in) ==
    LET f == Top(c)
        l == f.loc
        rt == funcptr_return_type(in.text)
        op == funcptr_open_params(in.text)
        pa == funcptr_param(in.text, l.pre)
        nx == parse_pre_type_tag_text(trim(pa.rest.v))
        params == Append(f.kids, FuncptrDecl(l.type_name, pa.pointer_kind,
                                             l.pre.is_struct, pa.name))
        done(ps) == Return(c, Some([proto |-> l.proto, params |-> ps]))
    IN
    CASE in.t = "Call" -> SetLoc(c, [phase |-> "return_type"])
      [] in.t = "Ret" /\ l.phase = "name_text" ->
           SetLoc(c, [phase |-> "params",
                      proto |-> FuncptrDecl(l.type_name, l.pointer_kind, FALSE, in.val.v)])
      [] in.t = "Ret" /\ l.phase = "type_text" ->
           SetLoc(c, [l EXCEPT !.phase = "param", !.type_name = in.val.v])
      [] l.phase = "return_type" ->
           IF in.t # "Characters" THEN Return(Log(c, "MissingCharacters", ""), None)
           ELSE IF ~rt.ok THEN Panic(c)
           ELSE SetLoc(c, [phase |-> "name", type_name |-> rt.type_name,
                           pointer_kind |-> rt.pointer_kind])
      [] l.phase = "name" ->
           IF in.t = "StartElement" /\ in.name = "name"
           THEN Call(SetLoc(push_element(c, in.name), [l EXCEPT !.phase = "name_text"]),
                     "parse_text_element", in)
           ELSE Return(Log(c, "MissingElement", "name"), None)
      [] l.phase = "params" ->
           IF in.t # "Characters" THEN Return(Log(c, "MissingCharacters", ""), None)
           ELSE IF ends_with(trim(in.text), <<";">>) THEN done(<<>>)
           ELSE IF ~op.ok THEN Panic(c)
           ELSE SetLoc(c, [phase |-> "type", proto |-> l.proto, pre |-> op,
                           type_name |-> <<>>])
      [] l.phase = "type" ->
           IF in.t = "StartElement" /\ in.name = "type"
           THEN Call(SetLoc(push_element(c, in.name), [l EXCEPT !.phase = "type_text"]),
                     "parse_text_element", in)
           ELSE Return(Log(c, "MissingElement", "type"), None)
      [] l.phase = "param" ->
           IF in.t # "Characters" THEN Return(Log(c, "MissingCharacters", ""), None)
           ELSE IF ~pa.ok THEN Panic(c)
           ELSE IF ~pa.rest.some THEN done(params)
           ELSE IF ~nx.ok THEN Panic(c)
           ELSE SetTop(c, [f EXCEPT !.kids = params,
                                    !.loc = [l EXCEPT !.phase = "type", !.pre = nx]])

\* the first markup of the given kind (`markup.iter().find_map(..)`)
\* crate::c::is_c_identifier_char: a letter, a digit or an underscore
is_c_identifier_char(ch) ==
    ch \in {"a", "b", "c", "d", "e", "f", "g", "h", "i", "j", "k", "l", "m", "n", "o", "p",
            "q", "r", "s", "t", "u", "v", "w", "x", "y", "z", "A", "B", "C", "D", "E", "F",
            "G", "H", "I", "J", "K", "L", "M", "N", "O", "P", "Q", "R", "S", "T", "U", "V",
            "W", "X", "Y", "Z", "0", "1", "2", "3", "4", "5", "6", "7", "8", "9", "_"}

T_define == <<"d", "e", "f", "i", "n", "e">>

\* define_pass whose Initial branch for an `s` not followed by `truct ` looks
\* at the character without taking it
define_pass_peeking(state, text, d, name_, defref) ==
    LET run(s, P(_)) == CHOOSE k \in 0..Len(s) :
                            /\ \A i \in 1..k : P(s[i])
                            /\ k = Len(s) \/ ~P(s[k + 1])
        drop(s, k) == SubSeq(s, k + 1, Len(s))
        \* 'a' <= c && c <= 'z'
        is_lower(c) ==
            c \in {"a", "b", "c", "d", "e", "f", "g", "h", "i", "j", "k", "l", "m", "n",
                   "o", "p", "q", "r", "s", "t", "u", "v", "w", "x", "y", "z"}
        go(s, rest, dd) == [state |-> s, text |-> rest, d |-> dd]
        stop(dd) == [state |-> IF dd.ok THEN "Break" ELSE "Panic", text |-> text, d |-> dd]
        panic == stop([d EXCEPT !.ok = FALSE])
        t == trim_start(text)
        ch == IF t = <<>> THEN "" ELSE Head(t)
        \* Initial, at '#': the directive and what follows its whitespace
        len == run(Tail(t), is_lower)
        directive == SubSeq(Tail(t), 1, len)
        after == drop(Tail(t), len)
        \* LineComment and BlockComment
        nl == find(text, <<"\n">>)
        close == find(text, <<"*", "/">>)
        keep(cm) == IF d.comment.some THEN d ELSE [d EXCEPT !.comment = Some(cm)]
        \* DefineName and DefineArgs: the identifier after the whitespace
        name_len == run(t, is_c_identifier_char)
        name == SubSeq(t, 1, name_len)
        next == drop(t, name_len)
        sep == trim_start(next)
    IN
    CASE state = "Initial" ->
           (CASE ch = "/" ->
                   IF Len(t) >= 2 /\ t[2] = "/"
                   THEN go("LineComment", drop(t, 2), d)
                   ELSE IF Len(t) >= 2 /\ t[2] = "*"
                   THEN go("BlockComment", drop(t, 2), d)
                   ELSE panic
              [] ch = "#" ->
                   IF after # <<>> /\ ~is_whitespace(Head(after)) THEN panic
                   ELSE IF directive = T_define
                   THEN go("DefineName", drop(after, 1), d)
                   ELSE stop([d EXCEPT !.replace = TRUE, !.is_disabled = FALSE])
              [] ch = "s" ->
                   IF starts_with(Tail(t), <<"t", "r", "u", "c", "t", " ">>)
                   THEN stop([d EXCEPT !.replace = TRUE])
                   ELSE go("Initial", t, d)
              [] OTHER -> panic)
      [] state = "LineComment" ->
           IF nl > 0
           THEN go("Initial", drop(text, nl), keep(trim(SubSeq(text, 1, nl - 1))))
           ELSE stop(keep(trim(text)))
      [] state = "BlockComment" ->
           IF close > 0
           THEN go("Initial", drop(text, close + 1), keep(SubSeq(text, 1, close - 1)))
           ELSE panic
      [] state = "DefineName" ->
           LET d1 == [d EXCEPT !.is_disabled = FALSE]
           IN IF name # name_ THEN panic
              ELSE IF next = <<>> THEN stop(d1)
              ELSE IF Head(next) = "("
              THEN go("DefineArgs", Tail(next), d1)
              ELSE IF is_whitespace(Head(next))
              THEN go("DefineValue", Tail(next), d1)
              ELSE stop([d1 EXCEPT !.ok = FALSE])
      [] state = "DefineArgs" ->
           LET d1 == [d EXCEPT !.parameters = Append(@, name)]
           IN IF sep # <<>> /\ Head(sep) = ","
              THEN go("DefineArgs", Tail(sep), d1)
              ELSE IF sep # <<>> /\ Head(sep) = ")"
              THEN go("DefineExpression", drop(sep, 2), d1)
              ELSE stop([d1 EXCEPT !.ok = FALSE])
      [] state = "DefineExpression" -> stop([d EXCEPT !.c_expr_ = Some(trim(text))])
      [] OTHER ->
           IF defref # <<>> THEN stop([d EXCEPT !.c_expr_ = Some(trim(text))])
           ELSE stop([d EXCEPT !.value_ = Some(trim(text))])

\* One pass of the `loop { match state { ... } }` of process_define_code, in
\* `state` with `text` left in chars; d holds is_disabled, replace, parameters,
\* value_, c_expr_ and comment_, and ok, which is FALSE once a panic! is
\* reached. The result is the next state, "Break" or "Panic", with the rest
\* of the text. The inner loop of DefineArgs takes one parameter per pass.
define_pass(state, text, d, name_, defref) ==
    LET run(s, P(_)) == CHOOSE k \in 0..Len(s) :
                            /\ \A i \in 1..k : P(s[i])
                            /\ k = Len(s) \/ ~P(s[k + 1])
        drop(s, k) == SubSeq(s, k + 1, Len(s))
        \* 'a' <= c && c <= 'z'
        is_lower(c) ==
            c \in {"a", "b", "c", "d", "e", "f", "g", "h", "i", "j", "k", "l", "m", "n",
                   "o", "p", "q", "r", "s", "t", "u", "v", "w", "x", "y", "z"}
        go(s, rest, dd) == [state |-> s, text |-> rest, d |-> dd]
        stop(dd) == [state |-> IF dd.ok THEN "Break" ELSE "Panic", text |-> text, d |-> dd]
        panic == stop([d EXCEPT !.ok = FALSE])
        t == trim_start(text)
        ch == IF t = <<>> THEN "" ELSE Head(t)
        \* Initial, at '#': the directive and what follows its whitespace
        len == run(Tail(t), is_lower)
        directive == SubSeq(Tail(t), 1, len)
        after == drop(Tail(t), len)
        \* LineComment and BlockComment
        nl == find(text, <<"\n">>)
        close == find(text, <<"*", "/">>)
        keep(cm) == IF d.comment.some THEN d ELSE [d EXCEPT !.comment = Some(cm)]
        \* DefineName and DefineArgs: the identifier after the whitespace
        name_len == run(t, is_c_identifier_char)
        name == SubSeq(t, 1, name_len)
        next == drop(t, name_len)
        sep == trim_start(next)
    IN
    CASE state = "Initial" ->
           (CASE ch = "/" ->
                   IF Len(t) >= 2 /\ t[2] = "/"
                   THEN go("LineComment", drop(t, 2), d)
                   ELSE IF Len(t) >= 2 /\ t[2] = "*"
                   THEN go("BlockComment", drop(t, 2), d)
                   ELSE panic
              [] ch = "#" ->
                   IF after # <<>> /\ ~is_whitespace(Head(after)) THEN panic
                   ELSE IF directive = T_define
                   THEN go("DefineName", drop(after, 1), d)
                   ELSE stop([d EXCEPT !.replace = TRUE, !.is_disabled = FALSE])
              [] ch = "s" ->
                   IF starts_with(Tail(t), <<"t", "r", "u", "c", "t", " ">>)
                   THEN stop([d EXCEPT !.replace = TRUE])
                   ELSE go("Initial", Tail(t), d)
              [] OTHER -> panic)
      [] state = "LineComment" ->
           IF nl > 0
           THEN go("Initial", drop(text, nl), keep(trim(SubSeq(text, 1, nl - 1))))
           ELSE stop(keep(trim(text)))
      [] state = "BlockComment" ->
           IF close > 0
           THEN go("Initial", drop(text, close + 1), keep(SubSeq(text, 1, close - 1)))
           ELSE panic
      [] state = "DefineName" ->
           LET d1 == [d EXCEPT !.is_disabled = FALSE]
           IN IF name # name_ THEN panic
              ELSE IF next = <<>> THEN stop(d1)
              ELSE IF Head(next) = "("
              THEN go("DefineArgs", Tail(next), d1)
              ELSE IF is_whitespace(Head(next))
              THEN go("DefineValue", Tail(next), d1)
              ELSE stop([d1 EXCEPT !.ok = FALSE])
      [] state = "DefineArgs" ->
           LET d1 == [d EXCEPT !.parameters = Append(@, name)]
           IN IF sep # <<>> /\ Head(sep) = ","
              THEN go("DefineArgs", Tail(sep), d1)
              ELSE IF sep # <<>> /\ Head(sep) = ")"
              THEN go("DefineExpression", drop(sep, 2), d1)
              ELSE stop([d1 EXCEPT !.ok = FALSE])
      [] state = "DefineExpression" -> stop([d EXCEPT !.c_expr_ = Some(trim(text))])
      [] OTHER ->
           IF defref # <<>> THEN stop([d EXCEPT !.c_expr_ = Some(trim(text))])
           ELSE stop([d EXCEPT !.value_ = Some(trim(text))])

\* the loop of process_define_code, run from r (a state, the text left and d)
\* to its break or panic
RECURSIVE define_loop(_, _, _)
define_loop(r, name_, defref) ==
    IF r.state \in {"Break", "Panic"} THEN r.d
    ELSE define_loop(define_pass(r.state, r.text, r.d, name_, defref), name_, defref)

\* process_define_code that takes every value for an expression
process_define_code_value_as_expression(code, name_, defref) ==
    LET d == define_loop([state |-> "Initial", text |-> code,
                          d |-> [ok |-> TRUE, is_disabled |-> TRUE, replace |-> FALSE,
                                 parameters |-> <<>>, value_ |-> None, c_expr_ |-> None,
                                 comment |-> None]],
                         name_, defref)
        c_expr_ == IF d.replace THEN Some(code) ELSE d.c_expr_
        value == IF c_expr_.some
                 THEN IF d.parameters = <<>>
                      THEN [k |-> "Expression", expression |-> c_expr_.v]
                      ELSE [k |-> "Function", params |-> d.parameters,
                            expression |-> c_expr_.v]
                 ELSE IF d.value_.some THEN [k |-> "Expression", expression |-> d.value_.v]
                 ELSE [k |-> "Empty"]
    IN [ok |-> d.ok,
        v |-> [name |-> name_, comment |-> d.comment, defref |-> defref,
               is_disabled |-> d.is_disabled, replace |-> d.replace, value |-> value]]

\* process_define_code that keeps only the first parameter of a macro
process_define_code_first_parameter(code, name_, defref) ==
    LET d == define_loop([state |-> "Initial", text |-> code,
                          d |-> [ok |-> TRUE, is_disabled |-> TRUE, replace |-> FALSE,
                                 parameters |-> <<>>, value_ |-> None, c_expr_ |-> None,
                                 comment |-> None]],
                         name_, defref)
        c_expr_ == IF d.replace THEN Some(code) ELSE d.c_expr_
        value == IF c_expr_.some
                 THEN IF d.parameters = <<>>
                      THEN [k |-> "Expression", expression |-> c_expr_.v]
                      ELSE [k |-> "Function", params |-> <<Head(d.parameters)>>,
                            expression |-> c_expr_.v]
                 ELSE IF d.value_.some THEN [k |-> "Value", value |-> d.value_.v]
                 ELSE [k |-> "Empty"]
    IN [ok |-> d.ok,
        v |-> [name |-> name_, comment |-> d.comment, defref |-> defref,
               is_disabled |-> d.is_disabled, replace |-> d.replace, value |-> value]]

\* TypeDefineOf that never takes the code verbatim
TypeDefineOf_never_verbatim(d, code, name_, defref) ==
    LET value == IF d.c_expr_.some
                 THEN IF d.parameters = <<>>
                      THEN [k |-> "Expression", expression |-> d.c_expr_.v]
                      ELSE [k |-> "Function", params |-> d.parameters,
                            expression |-> d.c_expr_.v]
                 ELSE IF d.value_.some THEN [k |-> "Value", value |-> d.value_.v]
                 ELSE [k |-> "Empty"]
    IN [ok |-> d.ok,
        v |-> [name |-> name_, comment |-> d.comment, defref |-> defref,
               is_disabled |-> d.is_disabled, replace |-> d.replace, value |-> value]]

\* TypeDefineOf that leaves every define disabled
TypeDefineOf_always_disabled(d, code, name_, defref) ==
    LET c_expr_ == IF d.replace THEN Some(code) ELSE d.c_expr_
        value == IF c_expr_.some
                 THEN IF d.parameters = <<>>
                      THEN [k |-> "Expression", expression |-> c_expr_.v]
                      ELSE [k |-> "Function", params |-> d.parameters,
                            expression |-> c_expr_.v]
                 ELSE IF d.value_.some THEN [k |-> "Value", value |-> d.value_.v]
                 ELSE [k |-> "Empty"]
    IN [ok |-> d.ok,
        v |-> [name |-> name_, comment |-> d.comment, defref |-> defref,
               is_disabled |-> TRUE, replace |-> d.replace, value |-> value]]

\* the end of process_define_code, after its loop left d: the TypeDefine
TypeDefineOf(d, code, name_, defref) ==
    LET c_expr_ == IF d.replace THEN Some(code) ELSE d.c_expr_
        value == IF c_expr_.some
                 THEN IF d.parameters = <<>>
                      THEN [k |-> "Expression", expression |-> c_expr_.v]
                      ELSE [k |-> "Function", params |-> d.parameters,
                            expression |-> c_expr_.v]
                 ELSE IF d.value_.some THEN [k |-> "Value", value |-> d.value_.v]
                 ELSE [k |-> "Empty"]
    IN [ok |-> d.ok,
        v |-> [name |-> name_, comment |-> d.comment, defref |-> defref,
               is_disabled |-> d.is_disabled, replace |-> d.replace, value |-> value]]

\* process_define_code whose loop does not look at defref
process_define_code_blind_to_defref(code, name_, defref) ==
    TypeDefineOf(define_loop([state |-> "Initial", text |-> code,
                              d |-> [ok |-> TRUE, is_disabled |-> TRUE, replace |-> FALSE,
                                     parameters |-> <<>>, value_ |-> None,
                                     c_expr_ |-> None, comment |-> None]],
                             name_, <<>>),
                 code, name_, defref)

\* process_define_code: the TypeDefine of a define's code; ok is FALSE when
\* it panics
process_define_code(code, name_, defref) ==
    TypeDefineOf(define_loop([state |-> "Initial", text |-> code,
                              d |-> [ok |-> TRUE, is_disabled |-> TRUE, replace |-> FALSE,
                                     parameters |-> <<>>, value_ |-> None,
                                     c_expr_ |-> None, comment |-> None]],
                             name_, defref),
                 code, name_, defref)

find_map(markup, kind) ==
    LET hits == {i \in 1..Len(markup) : markup[i].k = kind}
    IN IF hits = {} THEN None
       ELSE Some(markup[CHOOSE i \in hits : \A j \in hits : i <= j].text)

\* markup.iter().filter_map(..).collect(): the texts of every markup of a kind
filter_map(markup, kind) ==
    LET hits == {i \in 1..Len(markup) : markup[i].k = kind}
        RECURSIVE from(_)
        from(i) == IF i > Len(markup) THEN <<>>
                   ELSE (IF i \in hits THEN <<markup[i].text>> ELSE <<>>) \o from(i + 1)
    IN from(1)

\* TypeSpecOf that builds a Handle whether or not the type is named
TypeSpecOf_handle_whatever_named(f) ==
    LET a == f.attrs
        category == Get(a, "category")
        markup == f.loc.markup
        mname == find_map(markup, "Name")
        mtype == find_map(markup, "Type")
        named == Has(a, "name") \/ Has(a, "alias")
        is(t) == category.some /\ category.v = t
    IN
    CASE ~category.some -> [ok |-> TRUE, v |-> [spec |-> "None"]]
      [] is(<<"i", "n", "c", "l", "u", "d", "e">>) ->
           [ok |-> TRUE, v |-> [spec |-> "Include", name |-> mname,
                                quoted |-> find(f.code, <<"<">>) = 0]]
      [] is(T_define) ->
           LET name_ == IF Has(a, "name") THEN Get(a, "name") ELSE mname
               def == process_define_code(f.code, name_.v, filter_map(markup, "Type"))
           IN [ok |-> name_.some /\ def.ok, v |-> [spec |-> "Define", def |-> def.v]]
      [] is(<<"b", "a", "s", "e", "t", "y", "p", "e">>) ->
           [ok |-> mname.some, v |-> [spec |-> "Typedef", name |-> mname.v, basetype |-> mtype]]
      [] is(<<"b", "i", "t", "m", "a", "s", "k">>) ->
           IF named THEN [ok |-> TRUE, v |-> [spec |-> "Bitmask", def |-> None]]
           ELSE [ok |-> mname.some /\ mtype.some,
                 v |-> [spec |-> "Bitmask",
                        def |-> Some([name |-> mname.v, type_name |-> mtype.v])]]
      [] is(<<"h", "a", "n", "d", "l", "e">>) ->
           IF FALSE THEN [ok |-> TRUE, v |-> [spec |-> "None"]]
           ELSE [ok |-> mname.some /\ mtype.some
                        /\ mtype.v \in {T_VK_DEFINE_HANDLE, T_VK_DEFINE_NON_DISPATCHABLE_HANDLE},
                 v |-> [spec |-> "Handle", name |-> mname.v,
                        dispatch |-> mtype.v = T_VK_DEFINE_HANDLE]]
      [] is(<<"e", "n", "u", "m">>) -> [ok |-> TRUE, v |-> [spec |-> "Enumeration"]]
      [] is(<<"f", "u", "n", "c", "p", "o", "i", "n", "t", "e", "r">>) ->
           [ok |-> f.val.some, v |-> [spec |-> "FunctionPointer", def |-> f.val.v]]
      [] is(T_struct) -> [ok |-> TRUE, v |-> [spec |-> "Struct", members |-> f.kids]]
      [] is(<<"u", "n", "i", "o", "n">>) ->
           [ok |-> TRUE, v |-> [spec |-> "Union", members |-> f.kids]]
      [] OTHER -> [ok |-> FALSE, v |-> [spec |-> "None"]]

\* the TypeSpec parse_type chooses by category; ok is FALSE when an unwrap or
\* unreachable! of that choice panics
TypeSpecOf(f) ==
    LET a == f.attrs
        category == Get(a, "category")
        markup == f.loc.markup
        mname == find_map(markup, "Name")
        mtype == find_map(markup, "Type")
        named == Has(a, "name") \/ Has(a, "alias")
        is(t) == category.some /\ category.v = t
    IN
    CASE ~category.some -> [ok |-> TRUE, v |-> [spec |-> "None"]]
      [] is(<<"i", "n", "c", "l", "u", "d", "e">>) ->
           [ok |-> TRUE, v |-> [spec |-> "Include", name |-> mname,
                                quoted |-> find(f.code, <<"<">>) = 0]]
      [] is(T_define) ->
           LET name_ == IF Has(a, "name") THEN Get(a, "name") ELSE mname
               def == process_define_code(f.code, name_.v, filter_map(markup, "Type"))
           IN [ok |-> name_.some /\ def.ok, v |-> [spec |-> "Define", def |-> def.v]]
      [] is(<<"b", "a", "s", "e", "t", "y", "p", "e">>) ->
           [ok |-> mname.some, v |-> [spec |-> "Typedef", name |-> mname.v, basetype |-> mtype]]
      [] is(<<"b", "i", "t", "m", "a", "s", "k">>) ->
           IF named THEN [ok |-> TRUE, v |-> [spec |-> "Bitmask", def |-> None]]
           ELSE [ok |-> mname.some /\ mtype.some,
                 v |-> [spec |-> "Bitmask",
                        def |-> Some([name |-> mname.v, type_name |-> mtype.v])]]
      [] is(<<"h", "a", "n", "d", "l", "e">>) ->
           IF named THEN [ok |-> TRUE, v |-> [spec |-> "None"]]
           ELSE [ok |-> mname.some /\ mtype.some
                        /\ mtype.v \in {T_VK_DEFINE_HANDLE, T_VK_DEFINE_NON_DISPATCHABLE_HANDLE},
                 v |-> [spec |-> "Handle", name |-> mname.v,
                        dispatch |-> mtype.v = T_VK_DEFINE_HANDLE]]
      [] is(<<"e", "n", "u", "m">>) -> [ok |-> TRUE, v |-> [spec |-> "Enumeration"]]
      [] is(<<"f", "u", "n", "c", "p", "o", "i", "n", "t", "e", "r">>) ->
           [ok |-> f.val.some, v |-> [spec |-> "FunctionPointer", def |-> f.val.v]]
      [] is(T_struct) -> [ok |-> TRUE, v |-> [spec |-> "Struct", members |-> f.kids]]
      [] is(<<"u", "n", "i", "o", "n">>) ->
           [ok |-> TRUE, v |-> [spec |-> "Union", members |-> f.kids]]
      [] OTHER -> [ok |-> FALSE, v |-> [spec |-> "None"]]

MemberAttributes ==
    {"len", "altlen", "externsync", "optional", "selector", "selection",
     "noautovalidity", "validextensionstructs", "values", "limittype", "objecttype"}

TypeAttributes ==
    {"api", "alias", "requires", "name", "category", "parent", "returnedonly",
     "structextends", "allowduplicate", "objtypeenum", "bitvalues", "comment"}

TypeMarkup == [name |-> "Name", type |-> "Type", apientry |-> "ApiEntry"]

parse_type(c, in) ==
    LET f == Top(c)
        category == Get(f.attrs, "category")
        has_members == category.some /\ category.v \in {T_struct, <<"u", "n", "i", "o", "n">>}
        c0 == SetLoc(match_attributes(c, "parse_type", f.attrs, TypeAttributes),
                     [markup |-> <<>>])
        spec == TypeSpecOf(f)
    IN
    CASE in.t = "Call" ->
           IF category = Some(<<"f", "u", "n", "c", "p", "o", "i", "n", "t", "e", "r">>)
           THEN Call(SetTop(c0, [Top(c0) EXCEPT !.arm = "funcpointer"]),
                     "parse_type_funcptr", in)
           ELSE c0
      [] in.t = "Ret" /\ f.arm = "funcpointer" -> SetTop(c, [f EXCEPT !.val = in.val])
      [] in.t = "Ret" /\ f.arm = "member" ->
           IF in.val.some
           THEN PushKid(c, [k |-> "Definition", code |-> in.val.code,
                            definition |-> in.val.v, markup |-> in.val.markup])
           ELSE c
      [] in.t = "Ret" /\ f.arm = "comment" ->
           PushKid(c, [k |-> "Comment", text |-> in.val.v])
      [] in.t = "Ret" /\ f.arm \in DOMAIN TypeMarkup ->
           SetTop(c, [f EXCEPT !.code = @ \o in.val.v,
                               !.loc.markup = Append(@, [k |-> TypeMarkup[f.arm],
                                                         text |-> in.val.v])])
      [] in.t = "Ret" -> c
      [] in.t \in {"Characters", "Whitespace"} -> AddCode(c, in.text)
      [] in.t = "StartElement" /\ in.name = "member" /\ has_members ->
           LET c1 == push_element(c, in.name)
           IN Call(match_attributes(SetTop(c1, [f EXCEPT !.arm = "member"]),
                                    "parse_type", in.attrs, MemberAttributes),
                   "parse_name_with_type", in)
      [] in.t = "StartElement" /\ in.name = "comment" /\ has_members ->
           Arm(c, in, "parse_text_element")
      [] in.t = "StartElement" /\ in.name \in DOMAIN TypeMarkup ->
           Arm(c, in, "parse_text_element")
      [] OTHER ->
           LET c1 == match_elements(c, in)
           IN IF ~c1.brk THEN c1
              ELSE IF ~spec.ok THEN Panic(c1)
              ELSE Return(NoBrk(c1), Some([k |-> "Type", attrs |-> f.attrs, spec |-> spec.v]))

\* the arm "types" of parse_registry
types(c, in) ==
    CASE in.t = "Call" -> match_attributes(c, "types", in.attrs, {"comment"})
      [] in.t = "Ret" ->
           IF Top(c).arm = "comment"
           THEN PushKid(c, [k |-> "Comment", text |-> in.val.v])
           ELSE PushIfSome(c, in.val)
      [] in.t = "StartElement" /\ in.name = "comment" -> Arm(c, in, "parse_text_element")
      [] in.t = "StartElement" /\ in.name = "type" -> Arm(c, in, "parse_type")
      [] OTHER ->
           LET c1 == match_elements(c, in)
           IN IF c1.brk
              THEN Return(NoBrk(c1), Some([k |-> "Types", children |-> Top(c1).kids]))
              ELSE c1

\* the arm "commands" of parse_registry
commands(c, in) == Section(c, in, "commands", "Commands", "command", "parse_command")

CommandAttributes ==
    {"name", "alias", "queues", "successcodes", "errorcodes", "renderpass",
     "videocoding", "cmdbufferlevel", "pipeline", "comment"}

ParamAttributes ==
    {"len", "altlen", "externsync", "optional", "noautovalidity", "objecttype",
     "validstructs"}

\* the arm "implicitexternsyncparams" of parse_command
implicitexternsyncparams(c, in) ==
    CASE in.t = "Call" -> c
      [] in.t = "Ret" -> IF Top(c).arm = "param" THEN PushKid(c, in.val.v) ELSE c
      [] in.t = "StartElement" /\ in.name = "param" -> Arm(c, in, "parse_text_element")
      [] OTHER ->
           LET c1 == match_elements(c, in)
           IN IF c1.brk THEN Return(NoBrk(c1), Some(Top(c1).kids)) ELSE c1

\* parse_command that puts each param before the earlier ones
parse_command_params_newest_first(c, in) ==
    LET f == Top(c)
        a == f.attrs
        l == f.loc
        c0 == match_attributes(c, "parse_command", a, CommandAttributes)
    IN
    CASE in.t = "Call" /\ Has(a, "alias") ->
           IF ~Has(a, "name") THEN Return(unwrap_attribute(c0, "name"), None)
           ELSE Call(c0, "consume_current_element", in)
      [] in.t = "Ret" /\ Has(a, "alias") ->
           Return(c, Some([k |-> "Alias", alias |-> Get(a, "alias").v,
                           name |-> Get(a, "name").v]))
      [] in.t = "Call" ->
           SetLoc(c0, [proto |-> None, alias |-> None, description |-> None,
                       implicitexternsyncparams |-> <<>>])
      [] in.t = "Ret" /\ f.arm = "proto" ->
           SetTop(c, [f EXCEPT !.loc.proto = [some |-> in.val.some, v |-> in.val.v],
                               !.code = @ \o in.val.code \o <<"(">>])
      [] in.t = "Ret" /\ f.arm = "param" ->
           SetTop(c, [f EXCEPT !.code = @ \o in.val.code,
                               !.kids = IF in.val.some
                                        THEN <<[definition |-> in.val.v]>> \o @
                                        ELSE @])
      [] in.t = "Ret" /\ f.arm = "description" ->
           SetTop(c, [f EXCEPT !.loc.description = in.val])
      [] in.t = "Ret" /\ f.arm = "implicitexternsyncparams" ->
           SetTop(c, [f EXCEPT !.loc.implicitexternsyncparams = in.val.v])
      [] in.t = "Ret" -> c
      [] in.t = "StartElement" /\ in.name = "proto" ->
           Call(SetTop(push_element(c, in.name), [f EXCEPT !.arm = "proto"]),
                "parse_name_with_type", [in EXCEPT !.attrs = NoAttrs])
      [] in.t = "StartElement" /\ in.name = "param" ->
           LET c1 == push_element(c, in.name)
               f1 == [f EXCEPT !.arm = "param",
                               !.code = IF f.kids # <<>> THEN @ \o <<",", " ">> ELSE @]
           IN Call(match_attributes(SetTop(c1, f1), "parse_command", in.attrs,
                                    ParamAttributes),
                   "parse_name_with_type", in)
      [] in.t = "StartElement" /\ in.name = "alias" ->
           LET c1 == push_element(c, in.name)
               f1 == [f EXCEPT !.arm = "alias", !.loc.alias = Get(in.attrs, "name")]
           IN Call(match_attributes(SetTop(c1, f1), "parse_command", in.attrs, {"name"}),
                   "consume_current_element", in)
      [] in.t = "StartElement" /\ in.name = "description" ->
           Arm(c, in, "parse_text_element")
      [] in.t = "StartElement" /\ in.name = "implicitexternsyncparams" ->
           Arm(c, in, "implicitexternsyncparams")
      [] OTHER ->
           LET c1 == match_elements(c, in)
           IN IF ~c1.brk THEN c1
              ELSE IF ~l.proto.some
              THEN Return(Log(NoBrk(c1), "MissingElement", "proto"), None)
              ELSE Return(NoBrk(c1),
                          Some([k |-> "Definition", proto |-> l.proto.v, params |-> f.kids,
                                alias |-> l.alias, description |-> l.description,
                                implicitexternsyncparams |-> l.implicitexternsyncparams,
                                code |-> f.code \o <<")", ";">>]))

parse_command(c, in) ==
    LET f == Top(c)
        a == f.attrs
        l == f.loc
        c0 == match_attributes(c, "parse_command", a, CommandAttributes)
    IN
    CASE in.t = "Call" /\ Has(a, "alias") ->
           IF ~Has(a, "name") THEN Return(unwrap_attribute(c0, "name"), None)
           ELSE Call(c0, "consume_current_element", in)
      [] in.t = "Ret" /\ Has(a, "alias") ->
           Return(c, Some([k |-> "Alias", alias |-> Get(a, "alias").v,
                           name |-> Get(a, "name").v]))
      [] in.t = "Call" ->
           SetLoc(c0, [proto |-> None, alias |-> None, description |-> None,
                       implicitexternsyncparams |-> <<>>])
      [] in.t = "Ret" /\ f.arm = "proto" ->
           SetTop(c, [f EXCEPT !.loc.proto = [some |-> in.val.some, v |-> in.val.v],
                               !.code = @ \o in.val.code \o <<"(">>])
      [] in.t = "Ret" /\ f.arm = "param" ->
           SetTop(c, [f EXCEPT !.code = @ \o in.val.code,
                               !.kids = IF in.val.some
                                        THEN Append(@, [definition |-> in.val.v])
                                        ELSE @])
      [] in.t = "Ret" /\ f.arm = "description" ->
           SetTop(c, [f EXCEPT !.loc.description = in.val])
      [] in.t = "Ret" /\ f.arm = "implicitexternsyncparams" ->
           SetTop(c, [f EXCEPT !.loc.implicitexternsyncparams = in.val.v])
      [] in.t = "Ret" -> c
      [] in.t = "StartElement" /\ in.name = "proto" ->
           Call(SetTop(push_element(c, in.name), [f EXCEPT !.arm = "proto"]),
                "parse_name_with_type", [in EXCEPT !.attrs = NoAttrs])
      [] in.t = "StartElement" /\ in.name = "param" ->
           LET c1 == push_element(c, in.name)
               f1 == [f EXCEPT !.arm = "param",
                               !.code = IF f.kids # <<>> THEN @ \o <<",", " ">> ELSE @]
           IN Call(match_attributes(SetTop(c1, f1), "parse_command", in.attrs,
                                    ParamAttributes),
                   "parse_name_with_type", in)
      [] in.t = "StartElement" /\ in.name = "alias" ->
           LET c1 == push_element(c, in.name)
               f1 == [f EXCEPT !.arm = "alias", !.loc.alias = Get(in.attrs, "name")]
           IN Call(match_attributes(SetTop(c1, f1), "parse_command", in.attrs, {"name"}),
                   "consume_current_element", in)
      [] in.t = "StartElement" /\ in.name = "description" ->
           Arm(c, in, "parse_text_element")
      [] in.t = "StartElement" /\ in.name = "implicitexternsyncparams" ->
           Arm(c, in, "implicitexternsyncparams")
      [] OTHER ->
           LET c1 == match_elements(c, in)
           IN IF ~c1.brk THEN c1
              ELSE IF ~l.proto.some
              THEN Return(Log(NoBrk(c1), "MissingElement", "proto"), None)
              ELSE Return(NoBrk(c1),
                          Some([k |-> "Definition", proto |-> l.proto.v, params |-> f.kids,
                                alias |-> l.alias, description |-> l.description,
                                implicitexternsyncparams |-> l.implicitexternsyncparams,
                                code |-> f.code \o <<")", ";">>]))

-----------------------------------------------------------------------------
(* The token source.  It yields the events of a document drawn from one of  *)
(* a few families, each a part of the registry schema with the deviations   *)
(* the parser reports on; or a tokenization error, after which the          *)
(* iterator is finished.                                                    *)

Families ==
    {"top", "leaf", "spirv", "enum", "ext", "fmt", "cmd", "types", "decl", "define", "ints"}

\* the start-tags and text runs a document of each family may hold
Budget ==
    [top |-> MaxEvents - 3, leaf |-> MaxEvents - 2, spirv |-> MaxEvents - 2,
     enum |-> MaxEvents - 3, ext |-> MaxEvents - 2, fmt |-> MaxEvents - 2,
     cmd |-> MaxEvents - 1, types |-> MaxEvents - 1,
     decl |-> MaxEvents + 7, define |-> MaxEvents + 3,
     pre |-> MaxEvents + 6, len |-> MaxEvents + 6, sync |-> MaxEvents + 6,
     bits |-> MaxEvents + 6, extra |-> MaxEvents + 9, cextra |-> MaxEvents + 9,
     fptr |-> MaxEvents + 6, cat |-> MaxEvents, cmds |-> MaxEvents + 11,
     ints |-> MaxEvents - 5]

X == <<"x">>

Tags(name, attrsSet) == {[name |-> name, attrs |-> a] : a \in attrsSet}

Plain(names) == {[name |-> n, attrs |-> NoAttrs] : n \in names}

\* the <type> start-tags of the category family: every category parse_type
\* names, one it does not name and none, each bare, with a name attribute and
\* with an alias attribute
CategoryTags ==
    LET categories == {<<"i", "n", "c", "l", "u", "d", "e">>, T_define,
                       <<"b", "a", "s", "e", "t", "y", "p", "e">>,
                       <<"b", "i", "t", "m", "a", "s", "k">>,
                       <<"h", "a", "n", "d", "l", "e">>, <<"e", "n", "u", "m">>,
                       T_struct, <<"u", "n", "i", "o", "n">>,
                       <<"c", "l", "a", "s", "s">>}
        named == {<<>>, << <<"name", <<"N">> >> >>, << <<"alias", X>> >>}
    IN Tags("type", {c \o n : c \in {<<>>} \cup {<< <<"category", t>> >> : t \in categories},
                               n \in named})

FeatureTags ==
    Tags("feature", {<< <<"api", X>>, <<"name", X>>, <<"number", <<"1">> >> >>,
                     << <<"api", X>>, <<"name", X>> >>})

\* the four value-specifying attributes of an <enum>
FourAttributes ==
    << <<"offset", <<"3">> >>, <<"bitpos", <<"2">> >>, <<"value", <<"1">> >>,
       <<"alias", <<"B">> >> >>

Chosen(S) == SelectSeq(FourAttributes, LAMBDA a : a[1] \in S)

\* an <enum> with a name and any of the four, with or without `extends`, an
\* offset alone also with a `dir`; without a name; with an integer that does
\* not parse
EnumTags ==
    Tags("enum",
         {<< <<"name", X>> >> \o Chosen(S) \o ext \o dir :
              S \in SUBSET {"offset", "bitpos", "value", "alias"},
              ext \in {<<>>, << <<"extends", <<"E">> >> >>},
              dir \in {<<>>}}
         \cup {<< <<"name", X>>, <<"offset", <<"3">> >> >> \o ext \o << <<"dir", d>> >> :
                  ext \in {<<>>, << <<"extends", <<"E">> >> >>},
                  d \in {<<"-">>, <<"+">>}}
         \cup {<<>>, << <<"value", <<"1">> >> >>,
               << <<"name", X>>, <<"bitpos", <<"z">> >> >>,
               << <<"name", X>>, <<"offset", <<"z">> >>, <<"extends", <<"E">> >> >>})

EnableTags ==
    Tags("enable", {<< <<"version", X>> >>,
                    << <<"struct", X>>, <<"feature", X>> >>,
                    << <<"struct", X>> >>,
                    << <<"property", X>>, <<"member", X>> >>,
                    <<>>})

InterfaceTags ==
    Tags("type", {<< <<"name", X>> >>, <<>>})
    \cup Tags("enum", {<< <<"name", X>> >>, <<>>,
                       << <<"name", X>>, <<"value", <<"1">> >>, <<"alias", <<"B">> >> >>})
    \cup Tags("command", {<< <<"name", X>> >>})
    \cup Plain({"comment", "bogus"})

FormatTags ==
    Tags("format",
         {<< <<"name", X>>, <<"class", X>>, <<"blockSize", <<"1">> >>,
             <<"texelsPerBlock", <<"1">> >> >>,
          << <<"name", X>>, <<"blockSize", <<"1">> >>, <<"texelsPerBlock", <<"1">> >> >>,
          << <<"name", X>>, <<"class", X>>, <<"blockSize", <<"z">> >>,
             <<"texelsPerBlock", <<"1">> >> >>})

\* The texts of a <member> body, by the place they stand at: before <type>,
\* between <type> and <name>, after <name>, and after the <enum> of a symbolic
\* array length.  The <type>, <name> and <enum> of these documents always
\* hold their text.
DeclTexts ==
    [pre |-> {T_const \o <<" ">>},
     post |-> {<<"*", " ">>, <<"*", "*">>, <<"*", " ">> \o T_const \o <<"*", " ">>},
     tail |-> {<<"[", "4", "]">>, <<"[", "4", "]", "[", "2", "]">>, <<"[">>,
               <<"[", "4", "]", "[">>},
     close |-> {<<"]">>, <<"]", "[", "2", "]">>, <<"x">>}]

\* The texts of a <type category="define"> body: before <name>, after <name>.
DefineTexts ==
    [pre |-> {<<"#", "d", "e", "f", "i", "n", "e", " ">>,
              <<"/", "/", " ", "c", "\n", "#", "d", "e", "f", "i", "n", "e", " ">>,
              <<"/", "*", "c", "*", "/", "#", "d", "e", "f", "i", "n", "e", " ">>,
              <<"#", "i", "f", "d", "e", "f", " ">>,
              <<"#", "d", "e", "f", "i", "n", "e", " ", "N", " ", "1">>},
     post |-> {<<" ", "2", "6", "1">>, <<" ">>,
               <<"(", "a", ",", " ", "b", ")", " ", "a", "+", "b", " ">>,
               <<"(", "a", ")", "a">>, <<"(", ")", " ", "1">>}]

\* The documents of a declaration: a <member> of a struct, or the <proto> or
\* <param> of a command, with its <type> and <name>.  Each family varies one
\* part of the declaration: the text before <type> (pre), the `len` and
\* `altlen` attributes (len), the `externsync` attribute (sync), the text
\* after <name> (bits), the elements after <name> (extra, cextra).
MemberDoc ==
    LET struct == Tags("type", {<< <<"category", T_struct>> >>})
        member == Plain({"member"})
        none == [section |-> "types", item |-> struct, decl |-> member,
                 pre |-> {}, post |-> {}, tail |-> {}, extra |-> {}]
    IN [pre |-> [none EXCEPT !.pre = {<<"c", "o", "n", "s", "t", " ">>, <<"s", "t", "r", "u", "c", "t", " ">>, <<"c", "o", "n", "s", "t", " ", "s", "t", "r", "u", "c", "t", " ">>, <<"c", "o", "n", "s", "t", "s", "t", "r", "u", "c", "t">>, <<"s", "t", "r", "u", "c", "t", " ", "c", "o", "n", "s", "t">>, <<"i", "n", "t", " ">>, <<" ", " ">>},
                             !.post = {<<"*">>}],
        len |-> [none EXCEPT !.decl =
                     Tags("member", {<<<<"len", <<"n", "u", "l", "l", "-", "t", "e", "r", "m", "i", "n", "a", "t", "e", "d">>>>>>,
                            <<<<"len", <<"4">>>>>>,
                            <<<<"len", <<"p", "-", ">", "f">>>>>>,
                            <<<<"len", <<"p">>>>>>,
                            <<<<"len", <<"p", ",", "4">>>>>>,
                            <<<<"len", <<"a", ",", "b", ",", "c">>>>>>,
                            <<<<"len", <<"l", "a", "t", "e", "x", "m", "a", "t", "h", ":", "x">>>>>>,
                            <<<<"len", <<"a", "-", ">", "b", "-", ">", "c">>>>>>,
                            <<<<"len", <<>>>>>>,
                            <<<<"len", <<"l", "a", "t", "e", "x", "m", "a", "t", "h", ":", "x">>>>, <<"altlen", <<"y">>>>>>,
                            <<<<"altlen", <<"y">>>>>>,
                            <<<<"len", <<"p">>>>, <<"altlen", <<"y">>>>>>})],
        sync |-> [none EXCEPT !.decl =
                     Tags("member", {<<<<"externsync", <<"t", "r", "u", "e">>>>>>,
                            <<<<"externsync", <<"N", "-", ">", "a">>>>>>,
                            <<<<"externsync", <<"N", "[", "]", ".", "a">>>>>>,
                            <<<<"externsync", <<"N", ".", "a">>>>>>,
                            <<<<"externsync", <<"N", ":", ":", "a">>>>>>,
                            <<<<"externsync", <<"N", "-", ">", "a", ",", "N", ".", "b">>>>>>,
                            <<<<"externsync", <<"M", "-", ">", "a">>>>>>,
                            <<<<"externsync", <<"N">>>>>>,
                            <<<<"externsync", <<"N", "-", ">", "a", ",", "t", "r", "u", "e">>>>>>})],
        bits |-> [none EXCEPT !.tail = {<<":", "3">>, <<":", "x">>, <<"[", "4", "]">>, <<"x">>, <<" ">>}],
        extra |-> [none EXCEPT !.extra = {"comment", "bogus"}],
        cextra |-> [none EXCEPT !.section = "commands", !.item = Plain({"command"}),
                                !.decl = Plain({"proto", "param"}),
                                !.extra = {"comment", "bogus"}]]

\* The texts of a <type category="funcpointer"> body: before <name>, after
\* <name>, and after the <type> of a parameter.
FuncptrTexts ==
    [ret |-> {<<"t", "y", "p", "e", "d", "e", "f", " ", "v", "o", "i", "d", " ", "(", "V", "K", "A", "P", "I", "_", "P", "T", "R", " ", "*">>,
             <<"t", "y", "p", "e", "d", "e", "f", " ", "v", "o", "i", "d", "*", " ", "(", "V", "K", "A", "P", "I", "_", "P", "T", "R", " ", "*">>},
     open |-> {<<")", "(", "v", "o", "i", "d", ")", ";">>,
              <<")", "(", "i", "n", "t", ")", ";">>,
              <<")", "(">>,
              <<")", "(", "c", "o", "n", "s", "t", " ">>,
              <<")", "(", "s", "t", "r", "u", "c", "t", " ">>},
     param |-> {<<" ", "a", ")", ";">>,
               <<"*", " ", "a", ")", ";">>,
               <<"*", "*", " ", "a", ",", " ">>,
               <<" ", "a", ",", " ", "c", "o", "n", "s", "t", " ">>,
               <<" ", "a">>,
               <<"*", " ", "c", "o", "n", "s", "t", "*", " ", "a", ",", " ", "s", "t", "r", "u", "c", "t", " ">>}]

\* The texts of the integer attributes: with and without sign, with and
\* without the prefix 0x and a sign after it, with digits of both radices,
\* other characters and none, at and beyond the ends of the range of i64.
IntegerTexts ==
    LET signs == {<<>>, <<"-">>, <<"+">>}
        digits == {<<>>, <<"0">>, <<"7">>, <<"1", "2">>, <<"1", "f">>, <<"F", "F">>,
                   <<"g">>, <<"1", " ">>,
                   <<"1", "0", "7", "3", "7", "4", "1", "8", "2", "3">>,
                   <<"1", "0", "7", "3", "7", "4", "1", "8", "2", "4">>,
                   <<"1", "0", "7", "3", "7", "4", "1", "8", "2", "5">>,
                   <<"3", "f", "f", "f", "f", "f", "f", "f">>,
                   <<"4", "0", "0", "0", "0", "0", "0", "0">>,
                   <<"4", "0", "0", "0", "0", "0", "0", "1">>}
    IN {s1 \o d : s1 \in signs, d \in digits}
       \cup {s1 \o <<"0", "x">> \o s2 \o d : s1 \in {<<>>, <<"-">>}, s2 \in signs, d \in digits}

\* The texts of the bitwidth attribute: in the range of u32, at its end,
\* beyond it, negative and not a number.
WidthTexts ==
    {<<"6", "4">>, <<"0", "x", "2", "0">>, <<"6", "5", "5", "3", "5">>,
     <<"6", "5", "5", "3", "6">>, <<"6", "5", "6", "0", "0">>, <<"-", "1">>,
     <<"-", "6", "5", "5", "3", "6">>, <<"z">>}

\* the start-tags that may come next in a document of family f, under the
\* elements `open`
StartTags(f, open) ==
    CASE f = "top" ->
       (CASE open = <<>> -> Plain({"registry", "bogus"})
             [] open = <<"registry">> ->
                  Plain({"comment", "vendorids", "platforms", "tags", "types", "enums",
                         "commands", "extensions", "formats", "spirvextensions",
                         "spirvcapabilities", "bogus"}) \cup FeatureTags
             [] Last(open) = "bogus" -> Plain({"bogus"})
             [] OTHER -> {})
      [] f = "leaf" ->
       (CASE open = <<>> -> Plain({"registry"})
             [] open = <<"registry">> -> Plain({"vendorids", "platforms", "tags"})
             [] Last(open) = "vendorids" ->
                  Tags("vendorid", {<< <<"name", X>>, <<"id", <<"0", "x", "1">> >> >>,
                                    << <<"id", <<"0", "x", "1">> >> >>,
                                    << <<"name", X>> >>,
                                    << <<"name", X>>, <<"id", <<"1">> >> >>})
                  \cup Plain({"bogus"})
             [] Last(open) = "platforms" ->
                  Tags("platform", {<< <<"name", X>>, <<"protect", X>> >>, << <<"name", X>> >>})
                  \cup Plain({"bogus"})
             [] Last(open) = "tags" ->
                  Tags("tag", {<< <<"name", X>>, <<"author", X>>, <<"contact", X>> >>,
                               << <<"name", X>>, <<"contact", X>> >>})
                  \cup Plain({"bogus"})
             [] OTHER -> Plain({"bogus"}))
      [] f = "spirv" ->
       (CASE open = <<>> -> Plain({"registry"})
             [] open = <<"registry">> -> Plain({"spirvextensions", "spirvcapabilities"})
             [] Last(open) = "spirvextensions" ->
                  Tags("spirvextension", {<< <<"name", X>> >>, <<>>}) \cup Plain({"bogus"})
             [] Last(open) = "spirvcapabilities" ->
                  Tags("spirvcapability", {<< <<"name", X>> >>, <<>>}) \cup Plain({"bogus"})
             [] Last(open) \in {"spirvextension", "spirvcapability"} ->
                  EnableTags \cup Plain({"bogus"})
             [] Last(open) = "enable" -> Plain({"bogus"})
             [] OTHER -> {})
      [] f = "enum" ->
       (CASE open = <<>> -> Plain({"registry"})
             [] open = <<"registry">> -> Tags("enums", {<< <<"name", X>> >>}) \cup Plain({"tags"})
             [] Last(open) = "enums" ->
                  EnumTags \cup Tags("unused", {<< <<"start", <<"1">> >> >>, <<>>})
                  \cup Plain({"comment", "bogus"})
             [] Last(open) \in {"enum", "unused"} -> Plain({"bogus"})
             [] OTHER -> {})
      [] f = "ext" ->
       (CASE open = <<>> -> Plain({"registry"})
             [] open = <<"registry">> -> Plain({"extensions"}) \cup FeatureTags
             [] Last(open) = "extensions" ->
                  Tags("extension", {<< <<"name", X>> >>, <<>>,
                                     << <<"name", X>>, <<"provisional", X>> >>,
                                     << <<"name", X>>,
                                        <<"provisional", <<"t", "r", "u", "e">> >> >>})
                  \cup Plain({"bogus"})
             [] Last(open) \in {"extension", "feature"} -> Plain({"require", "remove", "bogus"})
             [] Last(open) \in {"require", "remove"} -> InterfaceTags
             [] OTHER -> {})
      [] f = "fmt" ->
       (CASE open = <<>> -> Plain({"registry"})
             [] open = <<"registry">> -> Plain({"formats"})
             [] Last(open) = "formats" -> FormatTags \cup Plain({"bogus"})
             [] Last(open) = "format" ->
                  Tags("component", {<< <<"name", X>>, <<"bits", X>>, <<"numericFormat", X>> >>,
                                     << <<"name", X>>, <<"numericFormat", X>> >>})
                  \cup Tags("plane", {<< <<"index", <<"0">> >>, <<"widthDivisor", <<"1">> >>,
                                         <<"heightDivisor", <<"1">> >>, <<"compatible", X>> >>,
                                      << <<"index", <<"0">> >>, <<"widthDivisor", <<"1">> >>,
                                         <<"heightDivisor", <<"1">> >> >>})
                  \cup Tags("spirvimageformat", {<< <<"name", X>> >>, <<>>})
                  \cup Plain({"bogus"})
             [] OTHER -> {})
      [] f = "cmd" ->
       (CASE open = <<>> -> Plain({"registry"})
             [] open = <<"registry">> -> Plain({"commands"})
             [] Last(open) = "commands" ->
                  Tags("command", {<<>>, << <<"name", X>>, <<"alias", X>> >>, << <<"alias", X>> >>})
                  \cup Plain({"bogus"})
             [] Last(open) = "command" ->
                  Plain({"proto", "param", "implicitexternsyncparams", "description", "bogus"})
                  \cup Tags("alias", {<< <<"name", X>> >>})
             [] Last(open) \in {"proto", "param"} /\ Len(open) = 4 -> Plain({"type", "name"})
             [] Last(open) = "implicitexternsyncparams" -> Plain({"param", "bogus"})
             [] OTHER -> {})
      [] f = "types" ->
       (CASE open = <<>> -> Plain({"registry"})
             [] open = <<"registry">> -> Plain({"types"})
             [] Last(open) = "types" ->
                  Tags("type", {<< <<"category", T_struct>> >>,
                                << <<"category", <<"f", "u", "n", "c", "p", "o", "i", "n", "t",
                                                   "e", "r">> >> >>,
                                << <<"name", X>> >>})
                  \cup Plain({"comment", "bogus"})
             [] Last(open) = "type" /\ Len(open) = 3 ->
                  Plain({"member", "name", "type", "comment", "bogus"})
             [] Last(open) = "member" -> Plain({"type", "name", "comment"})
             [] OTHER -> {})
      [] f = "decl" ->
       (CASE open = <<>> -> Plain({"registry"})
             [] open = <<"registry">> /\ tok.prev = "" -> Plain({"types"})
             [] Last(open) = "types" /\ tok.prev = "" ->
                  Tags("type", {<< <<"category", T_struct>> >>})
             [] Last(open) = "type" /\ Len(open) = 3 /\ tok.prev = "" -> Plain({"member"})
             [] Last(open) = "member" /\ tok.prev = "" -> Plain({"type"})
             [] Last(open) = "member" /\ tok.prev = "type" -> Plain({"name"})
             [] Last(open) = "member" /\ tok.prev = "name" /\ tok.txt ->
                  Plain({"enum"})
             [] OTHER -> {})
      [] f = "define" ->
       (CASE open = <<>> -> Plain({"registry"})
             [] open = <<"registry">> /\ tok.prev = "" -> Plain({"types"})
             [] Last(open) = "types" /\ tok.prev = "" ->
                  Tags("type", {<< <<"category", T_define>> >>,
                                << <<"category", T_define>>,
                                   <<"name", <<"N">> >> >>})
             [] Last(open) = "type" /\ Len(open) = 3 /\ tok.prev = "" -> Plain({"name"})
             [] Last(open) = "type" /\ Len(open) = 3 /\ tok.prev \in {"name", "type"} ->
                  Plain({"type"})
             [] OTHER -> {})
      [] f = "cat" ->
       (CASE open = <<>> -> Plain({"registry"})
             [] open = <<"registry">> /\ tok.prev = "" -> Plain({"types"})
             [] Last(open) = "types" /\ tok.prev = "" -> CategoryTags
             [] Len(open) = 3 /\ tok.prev = "" -> Plain({"name", "type"})
             [] Len(open) = 3 /\ tok.prev = "name" -> Plain({"type"})
             [] OTHER -> {})
      [] f = "cmds" ->
       (CASE open = <<>> -> Plain({"registry"})
             [] open = <<"registry">> /\ tok.prev = "" -> Plain({"commands"})
             [] Last(open) = "commands" /\ tok.prev = "" ->
                  Tags("command", {<<>>, << <<"name", X>>, <<"alias", X>> >>})
             [] Len(open) = 3 /\ tok.prev = "" -> Plain({"proto", "param"})
             [] Len(open) = 3 /\ tok.prev \in {"proto", "param"} -> Plain({"param"})
             [] Len(open) = 4 /\ tok.prev = "" -> Plain({"type"})
             [] Len(open) = 4 /\ tok.prev = "type" -> Plain({"name"})
             [] OTHER -> {})
      [] f = "ints" ->
       (CASE open = <<>> -> Plain({"registry"})
             [] open = <<"registry">> /\ tok.prev = "" ->
                  Tags("enums", {<< <<"name", X>>, <<"start", t>> >> : t \in IntegerTexts}
                                \cup {<< <<"name", X>>, <<"bitwidth", t>> >> : t \in WidthTexts})
             [] OTHER -> {})
      [] f = "fptr" ->
       (CASE open = <<>> -> Plain({"registry"})
             [] open = <<"registry">> /\ tok.prev = "" -> Plain({"types"})
             [] Last(open) = "types" /\ tok.prev = "" ->
                  Tags("type", {<< <<"category", <<"f", "u", "n", "c", "p", "o", "i", "n", "t",
                                                   "e", "r">> >> >>})
             [] Len(open) = 3 /\ tok.prev = "" -> Plain({"name"})
             [] Len(open) = 3 /\ tok.prev \in {"name", "type"} /\ tok.txt -> Plain({"type"})
             [] OTHER -> {})
      [] f \in DOMAIN MemberDoc ->
       (CASE open = <<>> -> Plain({"registry"})
             [] open = <<"registry">> /\ tok.prev = "" -> Plain({MemberDoc[f].section})
             [] Len(open) = 2 /\ tok.prev = "" -> MemberDoc[f].item
             [] Len(open) = 3 /\ tok.prev = "" -> MemberDoc[f].decl
             [] Len(open) = 4 /\ tok.prev = "" -> Plain({"type"})
             [] Len(open) = 4 /\ tok.prev = "type" -> Plain({"name"})
             [] Len(open) = 4 /\ tok.prev = "name" -> Plain(MemberDoc[f].extra)
             [] Len(open) = 4 /\ tok.prev = "comment" ->
                  Plain(MemberDoc[f].extra \ {"comment"})
             [] Len(open) = 5 /\ Last(open) = "bogus" /\ tok.prev = "" -> Plain({"bogus"})
             [] OTHER -> {})

\* the text runs that may come next in a document of family f
Texts(f, open) ==
    CASE f = "top" /\ open = <<"registry">> -> {Ev("Whitespace", "", NoAttrs, <<" ">>)}
      [] f = "top" /\ Last(open) = "comment" -> {Ev("Characters", "", NoAttrs, X)}
      [] f \in {"cmd", "types"} /\ Len(open) >= 3 -> {Ev("Characters", "", NoAttrs, X)}
      [] f = "decl" /\ Len(open) = 4 ->
           {Ev("Characters", "", NoAttrs, t) :
                t \in CASE tok.prev = "" -> DeclTexts.pre
                         [] tok.prev = "type" -> DeclTexts.post
                         [] tok.prev = "name" -> DeclTexts.tail
                         [] OTHER -> DeclTexts.close}
           \cup IF tok.prev = "type" THEN {Ev("Whitespace", "", NoAttrs, <<" ">>)} ELSE {}
      [] f = "decl" /\ Len(open) = 5 ->
           {Ev("Characters", "", NoAttrs,
               CASE Last(open) = "enum" -> <<"N">> [] Last(open) = "type" -> <<"T">>
                 [] OTHER -> X)}
      [] f = "define" /\ Len(open) = 3 /\ tok.prev \in {"", "name"} ->
           {Ev("Characters", "", NoAttrs, t) :
                t \in IF tok.prev = "" THEN DefineTexts.pre ELSE DefineTexts.post}
      [] f = "define" /\ Len(open) = 4 ->
           {Ev("Characters", "", NoAttrs,
               IF Last(open) # "type" THEN <<"N">>
               ELSE IF find(tok.text, <<"T">>) = 0 THEN <<"T">> ELSE <<"U">>)}
      [] f = "cat" /\ Len(open) = 3 /\ tok.prev = "" ->
           {Ev("Characters", "", NoAttrs, <<"#", "i", "f", " ">>)}
      [] f = "cat" /\ Len(open) = 4 ->
           {Ev("Characters", "", NoAttrs, t) :
                t \in IF Last(open) = "name" THEN {<<"N">>}
                      ELSE {T_VK_DEFINE_HANDLE, <<"T">>}}
      [] f = "cmds" /\ Len(open) = 5 ->
           {Ev("Characters", "", NoAttrs,
               IF Last(open) = "type" THEN <<"T">>
               ELSE IF open[4] = "proto" THEN <<"N">>
               ELSE IF Len(SelectSeq(tok.cmd, LAMBDA d : d.name = "param")) = 1
               THEN <<"a">> ELSE <<"b">>)}
      [] f = "fptr" /\ Len(open) = 3 /\ tok.prev \in {"", "name", "type"} ->
           {Ev("Characters", "", NoAttrs, t) :
                t \in CASE tok.prev = "" -> FuncptrTexts.ret
                         [] tok.prev = "name" -> FuncptrTexts.open
                         [] OTHER -> FuncptrTexts.param}
      [] f = "fptr" /\ Len(open) = 4 ->
           {Ev("Characters", "", NoAttrs, IF Last(open) = "type" THEN <<"T">> ELSE <<"N">>)}
      [] f \in DOMAIN MemberDoc /\ Len(open) = 4 /\ tok.prev \in {"", "type", "name"} ->
           {Ev(IF \A i \in DOMAIN t : is_whitespace(t[i]) THEN "Whitespace" ELSE "Characters",
               "", NoAttrs, t) :
                t \in CASE tok.prev = "" -> MemberDoc[f].pre
                         [] tok.prev = "type" -> MemberDoc[f].post
                         [] OTHER -> MemberDoc[f].tail}
      [] f \in DOMAIN MemberDoc /\ Len(open) = 5 ->
           {Ev("Characters", "", NoAttrs,
               CASE Last(open) = "type" -> <<"T">> [] Last(open) = "name" -> <<"N">>
                 [] Last(open) = "comment" -> <<"c">> [] OTHER -> <<"b">>)}
      [] OTHER -> {}

Yield(ev, t) == [ev |-> ev, tok |-> t]

\* a tokenization error: the iterator yields Err once and None from then on
YieldErr == Yield(Ev("Err", "", NoAttrs, <<>>), [tok EXCEPT !.st = "err", !.txt = FALSE])

YieldStart(t) ==
    Yield(Ev("StartElement", t.name, t.attrs, <<>>),
          [tok EXCEPT !.st = "body", !.open = Append(@, t.name), !.n = @ + 1,
                      !.txt = FALSE, !.prev = "",
                      !.text = IF Len(tok.open) = 2 \/ t.name \in {"member", "param", "proto"}
                               THEN <<>> ELSE @,
                      !.decl = IF t.name \in {"member", "param", "proto"} THEN t.attrs ELSE @,
                      !.extra = IF Len(tok.open) = 3 THEN <<>>
                                ELSE IF Len(tok.open) = 4 /\ tok.prev \notin {"", "type"}
                                THEN Append(@, t.name) ELSE @,
                      !.cmd = IF fam = "cmds" /\ Len(tok.open) = 3
                              THEN Append(@, [name |-> t.name, text |-> <<>>]) ELSE @,
                      !.root = IF tok.open = <<>> THEN t.name ELSE @,
                      !.second = IF tok.open = <<"registry">> THEN Append(@, t) ELSE @])

YieldEnd ==
    Yield(Ev("EndElement", Last(tok.open), NoAttrs, <<>>),
          [tok EXCEPT !.st = IF Len(tok.open) = 1 THEN "epilog" ELSE "body",
                      !.open = Front(@), !.txt = FALSE, !.prev = Last(tok.open)])

YieldText(e) ==
    Yield(e, [tok EXCEPT !.n = @ + 1, !.txt = TRUE,
                         !.cmd = IF fam = "cmds" /\ Len(tok.open) = 5
                                 THEN [@ EXCEPT ![Len(@)].text = @ \o e.text] ELSE @,
                         !.text = IF Len(tok.open) = 5
                                     /\ Last(tok.open) \notin {"type", "name", "enum"}
                                  THEN @ ELSE @ \o e.text])

\* what ctx.events.next() may yield, with the state it leaves the source in
Pull ==
    LET more == tok.n < Budget[fam] IN
    CASE tok.st = "prolog" ->
           {Yield(Ev("StartDocument", "", NoAttrs, <<>>), [tok EXCEPT !.st = "root"]),
            YieldErr}
      [] tok.st = "root" -> {YieldStart(t) : t \in StartTags(fam, <<>>)} \cup {YieldErr}
      [] tok.st = "body" ->
           {YieldStart(t) : t \in IF more /\ Len(tok.open) < MaxDepth
                                  THEN StartTags(fam, tok.open) ELSE {}}
           \cup {YieldText(e) : e \in IF more /\ ~tok.txt THEN Texts(fam, tok.open) ELSE {}}
           \cup (IF /\ Len(tok.open) >= 4 /\ ~tok.txt
                    /\ \/ /\ fam \in {"decl", "fptr", "cmds"} \cup DOMAIN MemberDoc
                          /\ Last(tok.open) \in {"type", "name", "enum", "comment"}
                       \/ fam \in {"define", "cat"} /\ Last(tok.open) = "type"
                 THEN {} ELSE {YieldEnd})
           \cup {YieldErr}
      [] tok.st = "epilog" ->
           {Yield(Ev("EndDocument", "", NoAttrs, <<>>), [tok EXCEPT !.st = "end"]),
            YieldErr}
      [] OTHER -> {Yield(Ev("None", "", NoAttrs, <<>>), tok)}

-----------------------------------------------------------------------------
(* The state machine. *)

Init ==
    /\ fam \in Families
    /\ tok = [st |-> "prolog", open |-> <<>>, n |-> 0, txt |-> FALSE, root |-> "",
              second |-> <<>>, prev |-> "", text |-> <<>>, decl |-> <<>>,
              extra |-> <<>>, cmd |-> <<>>]
    /\ xpath = <<>>
    /\ errors = <<>>
    /\ stack = <<[fn |-> "parse_xml", arm |-> "", attrs |-> NoAttrs, kids |-> <<>>,
                  depth |-> 0, val |-> None, code |-> <<>>, loc |-> <<>>,
                  x0 |-> <<>>, o0 |-> <<>>, e0 |-> 0, n0 |-> 0, k0 |-> 0]>>
    /\ result = [st |-> "running", registry |-> <<>>, errors |-> <<>>]
    /\ sig = NoSig
    /\ before = [x0 |-> <<>>, o0 |-> <<>>, e0 |-> 0, n0 |-> 0]
    /\ last = NoLast

\* the parser's state as a step finds it, for the event or signal `in`
Ctx(p, l) ==
    [xpath |-> xpath, errors |-> errors, stack |-> stack, result |-> result,
     sig |-> NoSig, last |-> l, brk |-> FALSE,
     x0 |-> p.x0, o0 |-> p.o0, e0 |-> p.e0, n0 |-> p.n0]

Commit(c) ==
    /\ xpath' = c.xpath
    /\ errors' = c.errors
    /\ stack' = c.stack
    /\ result' = c.result
    /\ sig' = c.sig
    /\ last' = c.last
    /\ fam' = fam

\* One step of the function F, whose frame is the top one: it
\* takes the pending call or return, or else pulls an event, and runs up to
\* its next call, return or pull.
Step(F(_, _)) ==
    IF sig.t # ""
    THEN /\ Commit(F(Ctx(before, last), sig))
         /\ UNCHANGED <<tok, before>>
    ELSE \E y \in Pull :
             LET p == [x0 |-> xpath, o0 |-> tok.open, e0 |-> Len(errors), n0 |-> tok.n]
             IN /\ Commit(F(Ctx(p, NoLast), y.ev))
                /\ tok' = y.tok
                /\ before' = p

\* the function fn is the one running
At(fn) == stack # <<>> /\ stack[Len(stack)].fn = fn

\* The parse call has returned without pulling every event: the rest of the
\* document, which the parser never reads.
Unread ==
    /\ stack = <<>>
    /\ \E y \in Pull :
           /\ y.ev.t \notin {"Err", "None"}
           /\ tok' = y.tok
    /\ UNCHANGED <<fam, xpath, errors, stack, result, sig, before, last>>

\* One disjunct per function of parse.rs, and the unread rest of the document.
Next ==
    \/ At("parse_xml") /\ Step(parse_xml)
    \/ At("parse_registry") /\ Step(parse_registry)
    \/ At("parse_vendorids") /\ Step(parse_vendorids)
    \/ At("parse_vendorid") /\ Step(parse_vendorid)
    \/ At("platforms") /\ Step(platforms)
    \/ At("parse_platform") /\ Step(parse_platform)
    \/ At("parse_tags") /\ Step(parse_tags)
    \/ At("parse_tag") /\ Step(parse_tag)
    \/ At("types") /\ Step(types)
    \/ At("parse_type") /\ Step(parse_type)
    \/ At("parse_type_funcptr") /\ Step(parse_type_funcptr)
    \/ At("parse_name_with_type") /\ Step(parse_name_with_type)
    \/ At("enums") /\ Step(enums)
    \/ At("parse_enum") /\ Step(parse_enum)
    \/ At("parse_enums_child_unused") /\ Step(parse_enums_child_unused)
    \/ At("commands") /\ Step(commands)
    \/ At("parse_command") /\ Step(parse_command)
    \/ At("implicitexternsyncparams") /\ Step(implicitexternsyncparams)
    \/ At("parse_feature") /\ Step(parse_feature)
    \/ At("parse_extensions") /\ Step(parse_extensions)
    \/ At("parse_extension") /\ Step(parse_extension)
    \/ At("parse_extension_item_require") /\ Step(parse_extension_item_require)
    \/ At("parse_extension_item_remove") /\ Step(parse_extension_item_remove)
    \/ At("parse_interface_item") /\ Step(parse_interface_item)
    \/ At("parse_formats") /\ Step(parse_formats)
    \/ At("parse_format") /\ Step(parse_format)
    \/ At("parse_format_component") /\ Step(parse_format_component)
    \/ At("parse_format_plane") /\ Step(parse_format_plane)
    \/ At("parse_format_spirvimageformat") /\ Step(parse_format_spirvimageformat)
    \/ At("parse_spirvextensions") /\ Step(parse_spirvextensions)
    \/ At("parse_spirvextension") /\ Step(parse_spirvextension)
    \/ At("parse_spirvcapabilities") /\ Step(parse_spirvcapabilities)
    \/ At("parse_spirvcapability") /\ Step(parse_spirvcapability)
    \/ At("parse_enable") /\ Step(parse_enable)
    \/ At("consume_current_element") /\ Step(consume_current_element)
    \/ At("parse_text_element") /\ Step(parse_text_element)
    \/ Unread

Spec == Init /\ [][Next]_vars

\* The parse of a document that holds one declaration.
InitDecl ==
    /\ fam \in DOMAIN MemberDoc \cup {"fptr", "cat", "cmds"}
    /\ tok = [st |-> "prolog", open |-> <<>>, n |-> 0, txt |-> FALSE, root |-> "",
              second |-> <<>>, prev |-> "", text |-> <<>>, decl |-> <<>>,
              extra |-> <<>>, cmd |-> <<>>]
    /\ xpath = <<>>
    /\ errors = <<>>
    /\ stack = <<[fn |-> "parse_xml", arm |-> "", attrs |-> NoAttrs, kids |-> <<>>,
                  depth |-> 0, val |-> None, code |-> <<>>, loc |-> <<>>,
                  x0 |-> <<>>, o0 |-> <<>>, e0 |-> 0, n0 |-> 0, k0 |-> 0]>>
    /\ result = [st |-> "running", registry |-> <<>>, errors |-> <<>>]
    /\ sig = NoSig
    /\ before = [x0 |-> <<>>, o0 |-> <<>>, e0 |-> 0, n0 |-> 0]
    /\ last = NoLast

\* The functions that run on such a document.
NextDecl ==
    \/ At("parse_xml") /\ Step(parse_xml)
    \/ At("parse_registry") /\ Step(parse_registry)
    \/ At("types") /\ Step(types)
    \/ At("parse_type") /\ Step(parse_type)
    \/ At("parse_type_funcptr") /\ Step(parse_type_funcptr)
    \/ At("parse_name_with_type") /\ Step(parse_name_with_type)
    \/ At("commands") /\ Step(commands)
    \/ At("parse_command") /\ Step(parse_command)
    \/ At("consume_current_element") /\ Step(consume_current_element)
    \/ At("parse_text_element") /\ Step(parse_text_element)
    \/ Unread

SpecDecl == InitDecl /\ [][NextDecl]_vars

\* The loop of process_define_code on its own, one pass per step, for every
\* code text made of at most MaxSegments of these pieces.
DefineSegments ==
    {<<"s">>,
     <<"s", "t", "r", "u", "c", "t", " ">>,
     <<"/", "/", "c", "\n">>,
     <<"/", "/", "c">>,
     <<"/", "*", "c", "*", "/">>,
     <<"/", "*", "c">>,
     <<"#", "d", "e", "f", "i", "n", "e", " ", "N">>,
     <<" ", "1">>,
     <<"(", "a", ",", "b", ")", " ", "x">>,
     <<"(", "a">>,
     <<"#", "i", "f">>,
     <<"(", ")", " ", "x">>,
     <<" ">>}

InitDefine ==
    LET RECURSIVE Codes(_)
        Codes(n) == IF n = 0 THEN {<<>>}
                    ELSE Codes(n - 1) \cup {c \o g : c \in Codes(n - 1), g \in DefineSegments}
    IN
    /\ fam = "define"
    /\ tok = [st |-> "prolog", open |-> <<>>, n |-> 0, txt |-> FALSE, root |-> "",
              second |-> <<>>, prev |-> "", text |-> <<>>, decl |-> <<>>,
              extra |-> <<>>, cmd |-> <<>>]
    /\ xpath = <<>>
    /\ errors = <<>>
    /\ \E code \in Codes(MaxSegments) :
          stack = <<[fn |-> "process_define_code", arm |-> "", attrs |-> NoAttrs,
                     kids |-> <<>>, depth |-> 0, val |-> None, code |-> code,
                     loc |-> [state |-> "Initial", chars |-> code,
                              d |-> [ok |-> TRUE, is_disabled |-> TRUE, replace |-> FALSE,
                                     parameters |-> <<>>, value_ |-> None,
                                     c_expr_ |-> None, comment |-> None],
                              name_ |-> <<"N">>, defref |-> <<>>],
                     x0 |-> <<>>, o0 |-> <<>>, e0 |-> 0, n0 |-> 0, k0 |-> 0]>>
    /\ result = [st |-> "running", registry |-> <<>>, errors |-> <<>>]
    /\ sig = NoSig
    /\ before = [x0 |-> <<>>, o0 |-> <<>>, e0 |-> 0, n0 |-> 0]
    /\ last = NoLast

\* one pass of the loop; after a break or a panic! there is no further pass,
\* and after a break the TypeDefine is built and returned
NextDefine ==
    \/ /\ At("process_define_code")
       /\ stack[1].loc.state \notin {"Break", "Panic"}
       /\ LET l == stack[1].loc
              r == define_pass(l.state, l.chars, l.d, l.name_, l.defref)
          IN /\ stack' = <<[stack[1] EXCEPT !.loc.state = r.state, !.loc.chars = r.text,
                                            !.loc.d = r.d]>>
             /\ result' = IF r.state = "Panic" THEN [result EXCEPT !.st = "panic"]
                          ELSE result
       /\ UNCHANGED <<fam, tok, xpath, errors, sig, before, last>>
    \/ /\ At("process_define_code")
       /\ stack[1].loc.state = "Break" /\ ~stack[1].val.some
       /\ stack' = <<[stack[1] EXCEPT
                         !.val = Some(TypeDefineOf(stack[1].loc.d, stack[1].code,
                                                   stack[1].loc.name_,
                                                   stack[1].loc.defref).v)]>>
       /\ UNCHANGED <<fam, tok, xpath, errors, result, sig, before, last>>

\* the loop runs on while it can: the program is sequential
SpecDefine == InitDefine /\ [][NextDefine]_vars /\ WF_vars(NextDefine)

-----------------------------------------------------------------------------
(* The properties. *)

Range(q) == {q[i] : i \in 1..Len(q)}

\* the parse call has not returned, and the parser is about to pull an event
Pulling == result.st = "running" /\ sig.t = ""

\* the token source has yielded no tokenization error
WellFormed == tok.st # "err"

\* the function fn returned since the last event was pulled
Returned(fn) == Pulling /\ last.fn = fn

\* the diagnostics logged since the event that called the function that
\* returned last
Logged == SubSeq(errors, last.e0 + 1, Len(errors))

\* the function that returned last left the parser where its caller was
\* before the element's start-tag: the element is consumed up to its end-tag,
\* the breadcrumb is back, the caller's frame is the top one
BackAtCaller ==
    /\ tok.open = last.o0
    /\ xpath = last.x0
    /\ Len(stack) = last.d0

\* the caller of the function that returned last has the children it had
Dropped == Len(stack[Len(stack)].kids) = last.k0

\* C1: when the parse call returns, it returns Ok (a Registry with the list of
\* diagnostics) if and only if the root element was `registry`; otherwise it
\* returns MissingRegistryElement with no Registry and no diagnostics, although
\* an UnexpectedElement was logged for the root.
C1_RootDecidesResult ==
    result.st \in {"Ok", "MissingRegistryElement"} =>
        /\ (result.st = "Ok") <=> (tok.root = "registry")
        /\ result.st = "Ok" => result.errors = errors
        /\ result.st = "MissingRegistryElement" =>
               /\ result.registry = <<>>
               /\ result.errors = <<>>
               /\ tok.root # "" =>
                      Diag("UnexpectedElement", <<tok.root>>, tok.root) \in Range(errors)

C1_Witness ==
    /\ result.st = "MissingRegistryElement"
    /\ tok.root = "bogus"
    /\ tok.st = "end"
    /\ Len(errors) = 1

\* C2: once the token source has yielded a tokenization error, the parse call
\* does not return Ok.
C2_ErrorIsFailure == tok.st = "err" => result.st # "Ok"

Containers ==
    {"parse_xml", "parse_registry", "parse_vendorids", "platforms", "parse_tags", "types",
     "parse_type", "enums", "commands", "parse_command", "implicitexternsyncparams",
     "parse_feature", "parse_extensions", "parse_extension", "parse_formats",
     "parse_format", "parse_spirvextensions", "parse_spirvextension",
     "parse_spirvcapabilities", "parse_spirvcapability"}

\* a container's loop has skipped a child that none of its arms takes
Skipped == Returned("consume_current_element") /\ last.arm = "_" /\ WellFormed

\* C3: after a container's loop skipped a child start-tag outside its accepted
\* set, exactly one diagnostic was appended, an UnexpectedElement at the child;
\* the child's subtree is consumed up to its end-tag; the breadcrumb is the one
\* before the start-tag; the container has the children it had and its loop
\* takes the next sibling.
C3_SkipUnexpected ==
    Skipped =>
        /\ BackAtCaller
        /\ Dropped
        /\ stack[Len(stack)].fn \in Containers
        /\ Len(Logged) = 1
        /\ Logged[1].kind = "UnexpectedElement"
        /\ Logged[1].xpath = Append(last.x0, Logged[1].name)

C3_Witness ==
    /\ Skipped
    /\ tok.n > last.n0 + 1
    /\ Len(stack) > 2
    /\ stack[Len(stack)].kids # <<>>

\* a builder returned absent right after it logged a MissingAttribute
MissingAttributeFrom(fns) ==
    /\ Pulling
    /\ last.fn \in fns
    /\ ~last.some
    /\ Logged # <<>>
    /\ Logged[Len(Logged)].kind = "MissingAttribute"
    /\ WellFormed

\* C4: after the builder of an <enum>, <extension>, <format>, <component>,
\* <plane>, <spirvimageformat> or <command alias=..> returned absent for a
\* missing attribute, the element is consumed up to its end-tag and the parent's
\* loop goes on with the children it had.
C4_UnwrapFirstDropsOneChild ==
    MissingAttributeFrom({"parse_enum", "parse_extension", "parse_format",
                          "parse_format_component", "parse_format_plane",
                          "parse_format_spirvimageformat", "parse_command"})
        => BackAtCaller /\ Dropped

\* C5: after the builder of a <vendorid>, <platform>, <tag>, <unused>, <enable>,
\* <feature>, <spirvextension> or <spirvcapability> returned absent for a missing
\* attribute, the element is consumed up to its end-tag, the breadcrumb is the
\* parent's and the parent's loop goes on with the children it had.
C5_ConsumeFirstDropsOneChild ==
    MissingAttributeFrom({"parse_vendorid", "parse_platform", "parse_tag",
                          "parse_enums_child_unused", "parse_enable", "parse_feature",
                          "parse_spirvextension", "parse_spirvcapability"})
        => BackAtCaller /\ Dropped

\* C6: while the parse call runs on a stream without tokenization error, the
\* breadcrumb names exactly the elements whose start-tag was pulled and whose
\* end-tag was not.
C6_BreadcrumbIsOpenElements ==
    result.st = "running" /\ WellFormed => xpath = tok.open

RegistryChildOf ==
    [comment |-> "Comment", vendorids |-> "VendorIds", platforms |-> "Platforms",
     tags |-> "Tags", types |-> "Types", enums |-> "Enums", commands |-> "Commands",
     feature |-> "Feature", extensions |-> "Extensions", formats |-> "Formats",
     spirvextensions |-> "SpirvExtensions", spirvcapabilities |-> "SpirvCapabilities"]

\* the second-level elements of the document that yield a RegistryChild
Yielding ==
    SelectSeq(tok.second,
              LAMBDA t : /\ t.name \in DOMAIN RegistryChildOf
                         /\ t.name = "feature" =>
                                FirstMissing(t.attrs, <<"api", "name", "number">>) = "")

\* C7: the Registry returned for a whole document has one child per
\* recognized second-level element (a <feature> only with api, name and
\* number), in document order.
C7_ChildrenInDocumentOrder ==
    result.st = "Ok" /\ tok.st = "end" =>
        [i \in 1..Len(result.registry) |-> result.registry[i].k]
            = [i \in 1..Len(Yielding) |-> RegistryChildOf[Yielding[i].name]]

\* parse_enum returned, to the loop of <enums> or through parse_interface_item
EnumReturned ==
    /\ Pulling
    /\ \/ last.fn = "parse_enum"
       \/ last.fn = "parse_interface_item" /\ last.arm = "enum"

\* the value-specifying attributes on the <enum>
Specifying == {n \in {"offset", "bitpos", "value", "alias"} : Has(last.attrs, n)}

\* C8: after parse_enum returned for an <enum> with a name and more than one of
\* offset, bitpos, value, alias, exactly one SchemaViolation was appended, the
\* element is consumed up to its end-tag, no Enum was returned or added to the
\* parent, and the parent's loop goes on.
C8_AmbiguousEnumDropped ==
    EnumReturned /\ WellFormed /\ Has(last.attrs, "name") /\ Cardinality(Specifying) > 1 =>
        /\ ~last.some
        /\ Cardinality({i \in 1..Len(Logged) : Logged[i].kind = "SchemaViolation"}) = 1
        /\ BackAtCaller
        /\ Dropped

C8_Witness ==
    /\ EnumReturned /\ WellFormed /\ Has(last.attrs, "name")
    /\ Cardinality(Specifying) = 3
    /\ stack[Len(stack)].fn = "enums"
    /\ tok.n > last.n0 + 1

\* C9: an <enum> with a name whose only value-specifying attribute is offset
\* is dropped with a SchemaViolation when it has no `extends`; with `extends`
\* (and an offset that parses) it yields EnumSpec::Offset with the parsed
\* offset, the `extends` name and dir = true unless the attribute dir is "-".
C9_OffsetNeedsExtends ==
    EnumReturned /\ Has(last.attrs, "name") /\ Specifying = {"offset"} =>
        /\ ~Has(last.attrs, "extends") =>
               /\ ~last.some
               /\ \E i \in 1..Len(Logged) : Logged[i].kind = "SchemaViolation"
        /\ Has(last.attrs, "extends") /\ Get(last.attrs, "offset").v = <<"3">> =>
               /\ last.some
               /\ last.v.spec.variant = "Offset"
               /\ last.v.spec.offset = 3
               /\ last.v.spec.extends = Get(last.attrs, "extends").v
               /\ last.v.spec.dir = (Get(last.attrs, "dir") # Some(<<"-">>))

C9_Witness ==
    /\ EnumReturned /\ Has(last.attrs, "name") /\ Specifying = {"offset"}
    /\ Has(last.attrs, "extends")
    /\ Get(last.attrs, "dir") = Some(<<"-">>)
    /\ last.some

VariantOf == [offset |-> "Offset", bitpos |-> "Bitpos", value |-> "Value", alias |-> "Alias"]

\* C10: for an <enum> with a name and at most one of offset, bitpos, value,
\* alias, the EnumSpec built is the variant of the attribute present, and
\* EnumSpec::None when none is; an Enum is built whenever the integers parse
\* (and an offset has its `extends`).
C10_VariantByAttribute ==
    EnumReturned /\ Has(last.attrs, "name") /\ Cardinality(Specifying) <= 1 =>
        /\ last.some =>
               /\ Specifying = {} => last.v.spec.variant = "None"
               /\ \A n \in Specifying : last.v.spec.variant = VariantOf[n]
        /\ /\ \A n \in Specifying \cap {"offset", "bitpos"} :
                  Get(last.attrs, n).v \in {<<"2">>, <<"3">>}
           /\ "offset" \in Specifying => Has(last.attrs, "extends")
           => last.some

C10_Witness ==
    /\ EnumReturned /\ Has(last.attrs, "name")
    /\ Specifying = {"value"}
    /\ last.some
    /\ last.v.spec.variant = "Value"

-----------------------------------------------------------------------------
(* Declarations: the body of a <member>, <param> or <proto>. *)

\* parse_name_with_type has just returned to its caller a NameWithType whose
\* <type> and <name> hold text
Declared ==
    /\ sig.t = "Ret" /\ last.fn = "parse_name_with_type" /\ last.some
    /\ last.v.type_name # <<>> /\ last.v.name # <<>>

\* the text of the returned declaration before its <type>, between its <type>
\* and its <name>, and after its <name>, cut out of the text of the document
PreText == split_once(tok.text, last.v.type_name).l

PostText == split_once(split_once(tok.text, last.v.type_name).r, last.v.name).l

TailText == split_once(split_once(tok.text, last.v.type_name).r, last.v.name).r

PreConst == starts_with(trim(PreText), T_const)

\* C11: the pointer kind of a declaration is decided by the text between
\* <type> and <name> and by the `const` before <type>: `* const*` is
\* Double{is_const: pre-tag const, inner_is_const: true}, `**` is
\* Double{is_const: pre-tag const, inner_is_const: false}, `*` is
\* Single{is_const: pre-tag const}, and no text or only whitespace is no
\* pointer kind.
C11_PointerKindFromText ==
    Declared =>
        LET t == trim(PostText)
            k == last.v.pointer_kind
        IN /\ t = <<"*", " ">> \o T_const \o <<"*">> =>
                  k = Some([ptr |-> "Double", is_const |-> PreConst, inner_is_const |-> TRUE])
           /\ t = <<"*", "*">> =>
                  k = Some([ptr |-> "Double", is_const |-> PreConst, inner_is_const |-> FALSE])
           /\ t = <<"*">> => k = Some([ptr |-> "Single", is_const |-> PreConst])
           /\ t = <<>> => k = None

\* a `const T* x` declaration was returned as a const single pointer
C11_Witness ==
    /\ Declared
    /\ PreConst
    /\ trim(PostText) = <<"*">>
    /\ last.v.pointer_kind = Some([ptr |-> "Single", is_const |-> TRUE])

\* The dimensions of a text of bracketed dimensions, in source order: Static
\* for an integer literal between the brackets, Constant for the text of an
\* <enum>; ok is FALSE when the text is not of that form.
RECURSIVE Dimensions(_)
Dimensions(text) ==
    LET b == strip_prefix(trim_start(text), <<"[">>)
        o == split_once(b.v, <<"]">>)
        n == from_str_radix(o.l, 10, 0, i64_MAX)
        d == IF n.some THEN [len |-> "Static", n |-> n.v]
             ELSE [len |-> "Constant", name |-> o.l]
        more == Dimensions(o.r)
    IN IF trim_start(text) = <<>> THEN [ok |-> TRUE, shape |-> <<>>]
       ELSE IF ~b.some \/ ~o.some \/ o.l = <<>> THEN [ok |-> FALSE, shape |-> <<>>]
       ELSE [ok |-> more.ok, shape |-> <<d>> \o more.shape]

\* C12: when the text after <name>, with the text of each <enum>, is a
\* sequence of bracketed dimensions, array_shape holds one entry per dimension
\* in source order, Static(n) for `[n]` and Constant(name) for a bracket pair
\* around an <enum>; the loop over <enum> elements has stopped at the `]` that
\* nothing follows.
C12_ShapePerDimension ==
    Declared /\ TailText # <<>> /\ Dimensions(TailText).ok =>
        last.v.array_shape = Some(Dimensions(TailText).shape)

\* `[4][<enum>N</enum>]` was returned as [Static(4), Constant("N")]
C12_Witness ==
    /\ Declared
    /\ TailText = <<"[", "4", "]", "[", "N", "]">>
    /\ last.v.array_shape = Some(<<[len |-> "Static", n |-> 4],
                                   [len |-> "Constant", name |-> <<"N">>]>>)

-----------------------------------------------------------------------------
(* Defines: <type category="define">. *)

\* parse_type has just returned a Type with a TypeDefine to its caller
Defined ==
    /\ sig.t = "Ret" /\ last.fn = "parse_type" /\ last.some
    /\ last.v.spec.spec = "Define"

\* the text of the document's define after `#define NAME`, when its text
\* starts so
AfterDefineName ==
    strip_prefix(strip_prefix(tok.text, <<"#">> \o T_define \o <<" ">>).v,
                 last.v.spec.def.name)

\* C13: a define whose code is `#define NAME <text>`, with NAME the declared
\* name, a text that is not empty and no <type> reference, is returned as
\* Value(text trimmed) with is_disabled = false and replace = false, so with
\* no parameters.
C13_DefineValue ==
    LET def == last.v.spec.def
        text == AfterDefineName.v
    IN /\ Defined /\ starts_with(tok.text, <<"#">> \o T_define \o <<" ">>)
       /\ AfterDefineName.some
       /\ text # <<>> /\ is_whitespace(Head(text)) /\ trim(text) # <<>>
       /\ def.defref = <<>>
       => /\ def.value = [k |-> "Value", value |-> trim(text)]
          /\ ~def.is_disabled
          /\ ~def.replace

\* `#define N 261` was returned as Value("261")
C13_Witness ==
    /\ Defined
    /\ tok.text = <<"#">> \o T_define \o <<" ", "N", " ", "2", "6", "1">>
    /\ last.v.spec.def.value = [k |-> "Value", value |-> <<"2", "6", "1">>]
    /\ ~last.v.spec.def.is_disabled

\* the parameters between the brackets of a macro, trimmed
Parameters(list) == [i \in 1..Len(split(list, <<",">>)) |-> trim(split(list, <<",">>)[i])]

\* C14: a define whose code is `#define NAME(p1, ..., pn) body` with n >= 1
\* identifiers is returned as Function{params: [p1, ..., pn] in source order,
\* expression: body trimmed} with is_disabled = false and replace = false.
C14_DefineFunction ==
    LET def == last.v.spec.def
        args == split_once(strip_prefix(AfterDefineName.v, <<"(">>).v, <<")">>)
        params == Parameters(args.l)
    IN /\ Defined /\ starts_with(tok.text, <<"#">> \o T_define \o <<" ">>)
       /\ AfterDefineName.some
       /\ starts_with(AfterDefineName.v, <<"(">>) /\ args.some
       /\ \A i \in 1..Len(params) :
              params[i] # <<>> /\ \A j \in 1..Len(params[i]) : is_c_identifier_char(params[i][j])
       /\ args.r # <<>> /\ is_whitespace(Head(args.r))
       => /\ def.value = [k |-> "Function", params |-> params, expression |-> trim(args.r)]
          /\ ~def.is_disabled
          /\ ~def.replace

\* `#define N(a, b) a+b` was returned as Function{params: [a, b], expression: a+b}
C14_Witness ==
    /\ Defined
    /\ last.v.spec.def.value = [k |-> "Function", params |-> << <<"a">>, <<"b">> >>,
                                expression |-> <<"a", "+", "b">>]
    /\ ~last.v.spec.def.is_disabled /\ ~last.v.spec.def.replace

-----------------------------------------------------------------------------
(* Diagnostics. *)

\* the builders that return an absent child
Builders ==
    {"parse_vendorid", "parse_platform", "parse_tag", "parse_enum",
     "parse_enums_child_unused", "parse_feature", "parse_extension", "parse_format",
     "parse_format_component", "parse_format_plane", "parse_format_spirvimageformat",
     "parse_spirvextension", "parse_spirvcapability", "parse_enable"}

\* a builder has returned absent for an element of which only the start-tag
\* and, at most, the end-tag were read
DroppedLeaf ==
    /\ Pulling /\ WellFormed
    /\ last.fn \in Builders /\ ~last.some
    /\ tok.n = last.n0 + 1

\* the diagnostics of the last call that do not report an unknown attribute
Causes == SelectSeq(Logged, LAMBDA d : d.kind # "UnexpectedAttribute")

\* C15: for a child that a builder drops, the diagnostics list holds exactly
\* one entry caused by the drop, and its location is the breadcrumb at the
\* point of failure: the element's path, or its parent's when the element was
\* consumed first.
C15_OneDiagnosticPerDrop ==
    DroppedLeaf =>
        /\ Len(Causes) = 1
        /\ Causes[1].xpath \in {last.x0, Append(last.x0, last.arm)}

\* C16: the diagnostics list is append-only: every step leaves the list it
\* found at the front of the list it leaves, and the list returned with the
\* Registry is the whole list, in logging order.
C16_AppendOnly ==
    /\ [][Len(errors') >= Len(errors) /\ SubSeq(errors', 1, Len(errors)) = errors]_vars
    /\ [](result.st = "Ok" => result.errors = errors)

\* a Registry was returned with several diagnostics
C16_Witness ==
    /\ result.st = "Ok"
    /\ Len(result.errors) >= 2
    /\ result.errors[1] # result.errors[2]

\* C17: after a child of <require> or <remove> that is none of comment, type,
\* enum, command was reported as an UnexpectedElement, its subtree is
\* consumed, the breadcrumb is the block's and the block's loop goes on with
\* the items it had, so that later siblings are appended to the same block.
C17_UnexpectedItemSkipped ==
    /\ Pulling /\ WellFormed
    /\ last.fn = "parse_interface_item" /\ ~last.some
    /\ Logged = <<Diag("UnexpectedElement", Append(last.x0, last.arm), last.arm)>>
    => BackAtCaller /\ Dropped

\* C18: after parse_name_with_type logged MissingElement or MissingCharacters
\* and returned absent, the <proto>, <param> or <member> is consumed up to its
\* own end-tag, the breadcrumb is the parent's and the parent's loop goes on
\* with the children it had.
C18_MissingMarkerKeepsSync ==
    /\ Pulling /\ WellFormed
    /\ last.fn = "parse_name_with_type" /\ ~last.some
    /\ Logged # <<>>
    /\ Logged[Len(Logged)].kind \in {"MissingElement", "MissingCharacters"}
    => BackAtCaller /\ Dropped

\* a ParseCtx push_element/pop_element mismatch was logged
Internal == \E i \in 1..Len(errors) : errors[i].kind = "Internal"

\* C19: every imbalance between pushes and pops is recorded: when a function
\* has returned and left on the breadcrumb an element its caller had not
\* pushed, or taken one off, an Internal diagnostic is in the list.
C19_ImbalanceRecorded ==
    /\ Pulling /\ WellFormed
    /\ last.fn # ""
    /\ Len(stack) = last.d0
    /\ xpath # last.x0
    => Internal

\* C20: on the events of a well-formed document, cut short or not, pop_element
\* never runs on an empty breadcrumb: no Internal diagnostic is ever logged.
C20_NoInternal == ~Internal

\* the parse call returned Ok with the breadcrumb empty although elements of
\* the document were still open: every pop found a name to take off
C20_Witness ==
    /\ result.st = "Ok" /\ WellFormed
    /\ xpath = <<>> /\ tok.open # <<>>
    /\ ~Internal

-----------------------------------------------------------------------------
(* Declarations: the keywords before <type>, the attributes, the text and   *)
(* the elements after <name>.                                               *)

\* the texts made of an optional `const` followed by an optional `struct`,
\* trimmed
PreTagTexts ==
    {trim(k \o w \o t) : k \in {<<>>, T_const}, w \in {<<>>, <<" ">>, <<" ", " ">>},
                         t \in {<<>>, T_struct}}

\* the parser has just taken the text before the <type> of a declaration
PreRead ==
    /\ tok.st = "body" /\ Len(tok.open) = 4 /\ tok.prev = "" /\ tok.txt
    /\ Last(tok.open) \in {"member", "param", "proto"}
    /\ before.n0 + 1 = tok.n

\* C21: the text before <type> is accepted exactly when, trimmed, it is an
\* optional `const` followed by an optional `struct`; any other text aborts
\* the parse at once, with no diagnostic; in the declaration returned,
\* is_struct tells whether `struct` was there and the pointer kind's is_const
\* whether `const` was.
C21_PreTagGrammar ==
    /\ PreRead =>
          /\ (result.st = "panic") = (trim(tok.text) \notin PreTagTexts)
          /\ Len(errors) = before.e0
    /\ Declared =>
          /\ last.v.is_struct = (find(PreText, T_struct) # 0)
          /\ last.v.pointer_kind.some =>
                last.v.pointer_kind.v.is_const = (find(PreText, T_const) # 0)

\* `struct const` before <type> aborted the parse
C21_Witness ==
    /\ PreRead
    /\ tok.text = T_struct \o <<" ">> \o T_const
    /\ result.st = "panic"

\* the `len` and `altlen` of the declaration's start-tag
LenAttr == Get(tok.decl, "len")

AltlenAttr == Get(tok.decl, "altlen")

Latex == LenAttr.some /\ starts_with(LenAttr.v, T_latexmath)

\* a text of decimal digits
IsNumber(v) == v # <<>> /\ \A i \in DOMAIN v : v[i] \in Range(Digits)

\* one value of `len`, read as the claim reads it
LengthOf(v) ==
    LET arrow == find(v, <<"-", ">">>)
    IN IF v = <<"n", "u", "l", "l", "-", "t", "e", "r", "m", "i", "n", "a", "t", "e", "d">>
       THEN [len |-> "NullTerminated"]
       ELSE IF IsNumber(v) THEN [len |-> "Static", n |-> from_str_radix(v, 10, 0, i64_MAX).v]
       ELSE IF arrow # 0
       THEN [len |-> "ParameterizedField", parameter |-> SubSeq(v, 1, arrow - 1),
             field |-> SubSeq(v, arrow + 2, Len(v))]
       ELSE [len |-> "Parameterized", name |-> v]

\* the call of parse_name_with_type for the declaration's start-tag has been
\* made
DeclEntered == tok.decl # <<>> /\ sig.t = ""

\* C22: for a `len` that is no latexmath expression, with no `altlen`, the
\* returned declaration has dynamic_shape Single(v1) for one comma-separated
\* value and Double(v1, v2) for two, each value read as null-terminated, an
\* integer, parameter->field split at the first `->`, or a parameter name;
\* with three values or more the parse aborts when the declaration is entered.
C22_LenValues ==
    LET it == split(LenAttr.v, <<",">>)
    IN LenAttr.some /\ ~Latex /\ ~AltlenAttr.some =>
         /\ Declared /\ Len(it) = 1 =>
               last.v.dynamic_shape = Some([shape |-> "Single", outer |-> LengthOf(it[1])])
         /\ Declared /\ Len(it) = 2 =>
               last.v.dynamic_shape = Some([shape |-> "Double", outer |-> LengthOf(it[1]),
                                            inner |-> LengthOf(it[2])])
         /\ DeclEntered /\ Len(it) >= 3 => result.st = "panic"

\* len="p,4" was returned as Double(Parameterized(p), Static(4))
C22_Witness ==
    /\ Declared
    /\ LenAttr = Some(<<"p", ",", "4">>)
    /\ last.v.dynamic_shape =
         Some([shape |-> "Double", outer |-> [len |-> "Parameterized", name |-> <<"p">>],
               inner |-> [len |-> "Static", n |-> 4]])

\* C23: with `altlen` present the returned declaration has dynamic_shape
\* Expression with c_expr = altlen, and latex_expr = the `len` without its
\* `latexmath:` prefix when `len` is such an expression; a latexmath `len`
\* without `altlen` is reported: no declaration is returned for it with no
\* diagnostic logged.
C23_LatexNeedsAltlen ==
    LET ds == last.v.dynamic_shape
    IN /\ Declared /\ AltlenAttr.some =>
             /\ ds.some /\ ds.v.shape = "Expression" /\ ds.v.c_expr = AltlenAttr.v
             /\ Latex => ds.v.latex_expr = strip_prefix(LenAttr.v, T_latexmath)
       /\ Latex /\ ~AltlenAttr.some => ~(Declared /\ Logged = <<>>)

SyncAttr == Get(tok.decl, "externsync")

\* the field paths an item of `externsync` can stand for: what follows the
\* declared name and one separator
FieldsOf(item, name) ==
    {SubSeq(item, Len(name \o sep) + 1, Len(item)) :
         sep \in {q \in {<<"-", ">">>, <<"[", "]", ".">>, <<".">>, <<":", ":">>} :
                      starts_with(item, name \o q)}}

\* the parser has just taken the end-tag of a declaration whose <type> and
\* <name> it has read
DeclClosed ==
    /\ tok.st = "body" /\ Len(tok.open) = 3 /\ tok.prev \in {"member", "param", "proto"}
    /\ tok.text = <<"T", "N">>
    /\ sig.t # "Call"

\* C24: externsync="true" is returned as Value; any other value is returned
\* as Fields with one entry per comma-separated item, in order, each the
\* item's text after the declared name and one separator among `->`, `[].`,
\* `.` and `::`; when an item does not start with the declared name followed
\* by a separator, the parse aborts.
C24_ExternSync ==
    LET it == split(SyncAttr.v, <<",">>)
        good == \A i \in DOMAIN it : FieldsOf(it[i], <<"N">>) # {}
    IN SyncAttr.some =>
         /\ Declared /\ SyncAttr.v = T_true => last.v.externsync = Some([sync |-> "Value"])
         /\ Declared /\ SyncAttr.v # T_true =>
               /\ last.v.externsync.some /\ last.v.externsync.v.sync = "Fields"
               /\ Len(last.v.externsync.v.fields) = Len(it)
               /\ \A i \in DOMAIN it :
                     last.v.externsync.v.fields[i] \in FieldsOf(it[i], last.v.name)
         /\ DeclClosed /\ SyncAttr.v # T_true /\ ~good => result.st = "panic"
         /\ DeclClosed /\ (SyncAttr.v = T_true \/ good) => result.st # "panic"

\* externsync="N->a,N.b" was returned as Fields [a, b]
C24_Witness ==
    /\ Declared
    /\ SyncAttr = Some(<<"N", "-", ">", "a", ",", "N", ".", "b">>)
    /\ last.v.externsync = Some([sync |-> "Fields", fields |-> << <<"a">>, <<"b">> >>])

\* the hook of the caller takes the child: <comment> in a <member>
Taken(n) == n = "comment" /\ last.arm = "member"

\* C25: when a declaration is returned from a document without tokenization
\* error, the diagnostics it logged are one UnexpectedElement for each child
\* element after <name> that the caller's hook rejects (every child of a
\* <proto> or <param>, every child but <comment> of a <member>), in order and
\* located at the child; the texts of the children the hook takes are the
\* member markup; every child is consumed to its end-tag.
C25_ExtraChildren ==
    Declared /\ WellFormed =>
        LET rejected == SelectSeq(tok.extra, LAMBDA n : ~Taken(n))
            taken == SelectSeq(tok.extra, Taken)
        IN /\ Logged = [i \in DOMAIN rejected |->
                           Diag("UnexpectedElement",
                                last.x0 \o <<last.arm, rejected[i]>>, rejected[i])]
           /\ sig.val.markup = [i \in DOMAIN taken |-> [k |-> "Comment", text |-> <<"c">>]]
           /\ BackAtCaller

\* a <member> with a <comment> and a <bogus> after its <name> was returned
\* with one diagnostic and one markup
C25_Witness ==
    /\ Declared /\ WellFormed
    /\ tok.extra = <<"comment", "bogus">>
    /\ last.arm = "member"
    /\ Len(Logged) = 1 /\ Len(sig.val.markup) = 1

\* C26: a returned declaration never has both a bitfield_size and an
\* array_shape: text `:N` after <name> gives bitfield_size N and no
\* array_shape, any other text that is not blank gives no bitfield_size, and
\* with no text, or only blanks, after <name> there is no array_shape.
C26_BitfieldOrShape ==
    Declared =>
        LET t == trim(TailText)
            width == SubSeq(t, 2, Len(t))
        IN /\ ~(last.v.bitfield_size.some /\ last.v.array_shape.some)
           /\ t # <<>> /\ Head(t) = ":" =>
                 /\ IsNumber(width)
                 /\ last.v.bitfield_size = Some(from_str_radix(width, 10, 0, u8_MAX).v)
                 /\ last.v.array_shape = None
           /\ t # <<>> /\ Head(t) # ":" =>
                 last.v.bitfield_size = None /\ last.v.array_shape.some
           /\ t = <<>> => last.v.bitfield_size = None /\ last.v.array_shape = None

\* `:3` after <name> was returned as a bitfield of width 3
C26_Witness ==
    /\ Declared
    /\ TailText = <<":", "3">>
    /\ last.v.bitfield_size = Some(3)
    /\ last.v.array_shape = None

\* the text of a funcpointer after its <name>, cut out of the text of the
\* document
AfterName == split_once(tok.text, <<"N">>).r

\* parse_type_funcptr has returned a TypeFunctionPointer and its last pull
\* was the text right after <name>
ReturnedAtOpen ==
    /\ sig.t = "Ret" /\ last.fn = "parse_type_funcptr" /\ last.some
    /\ tok.prev = "name"

\* the text right after the <name> of a funcpointer has just been pulled by
\* parse_type_funcptr
OpenRead ==
    /\ fam = "fptr" /\ Len(tok.open) = 3 /\ tok.prev = "name" /\ tok.txt
    /\ \/ At("parse_type_funcptr")
       \/ sig.t = "Ret" /\ last.fn = "parse_type_funcptr"

\* C27: the parameter list of a funcpointer is treated as empty if and only
\* if the text right after <name> is `)(void);`; with any other text the
\* parameter loop starts, waiting for a <type>.
C27_EmptyParamsIffVoid ==
    OpenRead =>
        /\ (ReturnedAtOpen /\ last.v.params = <<>>)
               <=> AfterName = <<")", "(", "v", "o", "i", "d", ")", ";">>
        /\ AfterName # <<")", "(", "v", "o", "i", "d", ")", ";">>
               => At("parse_type_funcptr") /\ stack[Len(stack)].loc.phase = "type"

\* parse_type_funcptr has just returned a TypeFunctionPointer for a
\* funcpointer whose body is C text
FuncptrReturned ==
    /\ fam = "fptr"
    /\ sig.t = "Ret" /\ last.fn = "parse_type_funcptr" /\ last.some

\* the parameters as written in the document, between `)(` and the end of
\* the text read, one per comma-separated piece
ParamPieces == split(SubSeq(AfterName, 3, Len(AfterName)), <<",">>)

\* what a piece `pre <type>T</type> post` declares, read off its characters:
\* struct and const before the marker, the stars and the const after it, and
\* the name after the last star, without the closing `);`
ParamOf(piece) ==
    LET o == split_once(piece, <<"T">>)
        stars == {i \in 1..Len(o.r) : o.r[i] = "*"}
        is_const == find(o.l, T_const) # 0
        id == trim(SubSeq(o.r, IF stars = {} THEN 1
                               ELSE 1 + CHOOSE i \in stars : \A j \in stars : j <= i,
                          Len(o.r)))
        e == strip_suffix(id, <<")", ";">>)
    IN [type_name |-> <<"T">>,
        is_struct |-> find(o.l, T_struct) # 0,
        pointer_kind |->
            CASE Cardinality(stars) = 0 -> None
              [] Cardinality(stars) = 1 -> Some([ptr |-> "Single", is_const |-> is_const])
              [] OTHER -> Some([ptr |-> "Double", is_const |-> is_const,
                                inner_is_const |-> find(o.r, T_const) # 0]),
        name |-> IF e.some THEN e.v ELSE id]

\* C28: a funcpointer returned with n >= 1 parameters has one parameter per
\* <type> marker read, in the order of the text: its pointer kind and name
\* come from the text after its marker, its const and struct flags from the
\* text after the comma before it, and the text of the last parameter, and
\* only that one, has no comma.
C28_FuncptrParams ==
    FuncptrReturned /\ last.v.params # <<>> =>
        LET ps == last.v.params
        IN /\ Len(ps) = Cardinality({i \in 1..Len(AfterName) : AfterName[i] = "T"})
           /\ Len(ps) = Len(ParamPieces)
           /\ \A i \in 1..Len(ps) :
                 LET want == ParamOf(ParamPieces[i])
                 IN /\ ps[i].type_name = want.type_name
                    /\ ps[i].is_struct = want.is_struct
                    /\ ps[i].pointer_kind = want.pointer_kind
                    /\ ps[i].name = want.name

\* two parameters were returned, the second a const pointer declared after a
\* comma
C28_Witness ==
    /\ FuncptrReturned
    /\ Len(last.v.params) = 2
    /\ last.v.params[1].name = <<"a">>
    /\ last.v.params[2].pointer_kind = Some([ptr |-> "Single", is_const |-> TRUE])
    /\ last.v.params[2].name = <<"a">>

\* parse_type is running for a <type category="funcpointer"> whose
\* parse_type_funcptr logged MissingElement or MissingCharacters and returned
\* absent
FuncptrAbsent ==
    /\ At("parse_type") /\ sig.t # "Call"
    /\ Get(stack[Len(stack)].attrs, "category")
          = Some(<<"f", "u", "n", "c", "p", "o", "i", "n", "t", "e", "r">>)
    /\ IF sig.t = "Ret" /\ last.fn = "parse_type_funcptr"
       THEN ~last.some ELSE ~stack[Len(stack)].val.some
    /\ \E i \in 1..Len(errors) :
          /\ errors[i].kind \in {"MissingElement", "MissingCharacters"}
          /\ Len(errors[i].xpath) >= 3 /\ errors[i].xpath[3] = "type"

\* C29: after parse_type_funcptr returned absent, parsing stays non-fatal:
\* on a stream without tokenization error no step of the running parse_type
\* aborts the parse.
C29_AbsentFuncptrNotFatal ==
    [][FuncptrAbsent /\ WellFormed' => result'.st # "panic"]_vars

\* the loop of process_define_code has left by break or by panic!
DefineStopped == stack[1].loc.state \in {"Break", "Panic"}

\* C30: the state machine of process_define_code terminates on every code
\* text: each pass takes at least one character from the text or ends the
\* loop by break or abort, and the loop always eventually ends.
C30_DefineTerminates ==
    /\ [][\/ Len(stack'[1].loc.chars) < Len(stack[1].loc.chars)
          \/ DefineStopped']_vars
    /\ <>DefineStopped

\* a code text that starts with an `s` not followed by `truct ` has gone
\* through the loop and left it by break
C30_Witness ==
    /\ At("process_define_code")
    /\ stack[1].loc.state = "Break"
    /\ stack[1].code # <<>> /\ Head(stack[1].code) = "s"
    /\ ~starts_with(stack[1].code, <<"s", "t", "r", "u", "c", "t", " ">>)

\* process_define_code has returned a TypeDefine for the code of the frame
DefineReturned == At("process_define_code") /\ stack[1].val.some

\* a code text without its leading whitespace and comments; empty when a
\* comment runs to the end of the text
RECURSIVE AfterComments(_)
AfterComments(text) ==
    LET t == trim_start(text)
        nl == find(t, <<"\n">>)
        close == find(t, <<"*", "/">>)
    IN IF starts_with(t, <<"/", "/">>)
       THEN IF nl = 0 THEN <<>> ELSE AfterComments(SubSeq(t, nl + 1, Len(t)))
       ELSE IF starts_with(t, <<"/", "*">>)
       THEN IF close = 0 THEN <<>> ELSE AfterComments(SubSeq(t, close + 2, Len(t)))
       ELSE t

\* the name of the directive a text starts with: what stands between its `#`
\* and the first whitespace
DirectiveOf(body) ==
    LET blanks == {i \in 2..Len(body) : is_whitespace(body[i])}
    IN SubSeq(body, 2, IF blanks = {} THEN Len(body)
                       ELSE (CHOOSE i \in blanks : \A j \in blanks : i <= j) - 1)

\* the code starts, after its comments, with a directive in lower-case
\* letters that is not `define`
OtherDirective(code) ==
    LET body == AfterComments(code)
    IN /\ body # <<>> /\ Head(body) = "#"
       /\ DirectiveOf(body) # T_define
       /\ \A i \in 1..Len(DirectiveOf(body)) :
             DirectiveOf(body)[i] \in
                 {"a", "b", "c", "d", "e", "f", "g", "h", "i", "j", "k", "l", "m", "n", "o",
                  "p", "q", "r", "s", "t", "u", "v", "w", "x", "y", "z"}

\* C31: a code that starts, after its comments, with a directive other than
\* `define` is returned with is_disabled = false, replace = true and the
\* whole code as Expression; a code that starts there with `struct ` is
\* returned with replace = true, is_disabled = true and the whole code as
\* Expression; neither aborts.
C31_DirectiveOrStruct ==
    LET code == stack[1].code
        struct == starts_with(AfterComments(code), T_struct \o <<" ">>)
    IN /\ At("process_define_code") /\ (OtherDirective(code) \/ struct)
          => stack[1].loc.state # "Panic"
       /\ DefineReturned /\ OtherDirective(code) =>
             /\ ~stack[1].val.v.is_disabled /\ stack[1].val.v.replace
             /\ stack[1].val.v.value = [k |-> "Expression", expression |-> code]
       /\ DefineReturned /\ struct =>
             /\ stack[1].val.v.is_disabled /\ stack[1].val.v.replace
             /\ stack[1].val.v.value = [k |-> "Expression", expression |-> code]

\* a comment and then `#if` was returned as the whole code, comment included
C31_Witness ==
    /\ DefineReturned
    /\ stack[1].code = <<"/", "*", "c", "*", "/", "#", "i", "f", " ", "1">>
    /\ stack[1].val.v.value = [k |-> "Expression", expression |-> stack[1].code]
    /\ stack[1].val.v.comment = Some(<<"c">>)

\* the texts of the <type> sub-elements of the document's define, in
\* document order
TypeReferences ==
    LET marks == SelectSeq(tok.text, LAMBDA ch : ch \in {"T", "U"})
    IN [i \in 1..Len(marks) |-> <<marks[i]>>]

\* C32: in a document without tokenization error, defref lists the texts of
\* the <type> sub-elements of the define in document order; a define whose code is `#define NAME <text>`, the text not
\* blank, has the value Expression(text) when there is at least one of them
\* and Value(text) when there is none.
C32_DefrefMakesExpression ==
    LET def == last.v.spec.def
        text == AfterDefineName.v
    IN Defined /\ WellFormed =>
          /\ def.defref = TypeReferences
          /\ /\ starts_with(tok.text, <<"#">> \o T_define \o <<" ">>)
             /\ AfterDefineName.some
             /\ text # <<>> /\ is_whitespace(Head(text)) /\ trim(text) # <<>>
             => def.value = IF TypeReferences # <<>>
                            THEN [k |-> "Expression", expression |-> trim(text)]
                            ELSE [k |-> "Value", value |-> trim(text)]

\* `#define N T`, with T a <type> sub-element, was returned as
\* Expression("T")
C32_Witness ==
    /\ Defined
    /\ tok.text = <<"#">> \o T_define \o <<" ", "N", " ", "T">>
    /\ last.v.spec.def.defref = << <<"T">> >>
    /\ last.v.spec.def.value = [k |-> "Expression", expression |-> <<"T">>]

\* C33: a returned TypeDefine with replace = true has the whole code as
\* Expression; one with a Function value has replace = false and
\* is_disabled = false; one with is_disabled = true comes from a code that
\* does not start, after its comments, with a `#` directive, and its value is
\* Empty or, with replace = true, the whole code as Expression.
C33_DefineConsistent ==
    LET code == stack[1].code
        def == stack[1].val.v
        verbatim == [k |-> "Expression", expression |-> code]
    IN DefineReturned =>
          /\ def.replace => def.value = verbatim
          /\ def.value.k = "Function" => ~def.replace /\ ~def.is_disabled
          /\ def.is_disabled =>
                /\ ~starts_with(AfterComments(code), <<"#">>)
                /\ \/ def.value = [k |-> "Empty"]
                   \/ def.replace /\ def.value = verbatim

\* `#define N(a,b) x` was returned as a Function, enabled and not verbatim
C33_Witness ==
    /\ DefineReturned
    /\ stack[1].code = <<"#">> \o T_define \o <<" ", "N", "(", "a", ",", "b", ")", " ", "x">>
    /\ stack[1].val.v.value.k = "Function"
    /\ ~stack[1].val.v.replace /\ ~stack[1].val.v.is_disabled

\* C34: in every returned TypeDefine a Function has only parameters that are
\* non-empty C identifiers, and a Value carries a text that is not empty.
C34_ParamsAndValueNotEmpty ==
    LET def == stack[1].val.v
    IN DefineReturned =>
          /\ def.value.k = "Function" =>
                \A i \in 1..Len(def.value.params) :
                   /\ def.value.params[i] # <<>>
                   /\ \A j \in 1..Len(def.value.params[i]) :
                         is_c_identifier_char(def.value.params[i][j])
          /\ def.value.k = "Value" => def.value.value # <<>>

\* the TypeSpec variant that goes with a category attribute, "" when there
\* is none
SpecOfCategory(category, named) ==
    LET is(t) == category.some /\ category.v = t
    IN CASE ~category.some -> "None"
         [] is(<<"i", "n", "c", "l", "u", "d", "e">>) -> "Include"
         [] is(T_define) -> "Define"
         [] is(<<"b", "a", "s", "e", "t", "y", "p", "e">>) -> "Typedef"
         [] is(<<"e", "n", "u", "m">>) -> "Enumeration"
         [] is(<<"f", "u", "n", "c", "p", "o", "i", "n", "t", "e", "r">>) -> "FunctionPointer"
         [] is(T_struct) -> "Struct"
         [] is(<<"u", "n", "i", "o", "n">>) -> "Union"
         [] is(<<"b", "i", "t", "m", "a", "s", "k">>) -> "Bitmask"
         [] is(<<"h", "a", "n", "d", "l", "e">>) -> IF named THEN "None" ELSE "Handle"
         [] OTHER -> ""

\* the Type that parse_type has just returned has the variant of its
\* category attribute
VariantOfReturned ==
    LET named == Has(last.attrs, "name") \/ Has(last.attrs, "alias")
    IN sig.t = "Ret" /\ last.fn = "parse_type" /\ last.some =>
          /\ last.v.spec.spec = SpecOfCategory(Get(last.attrs, "category"), named)
          /\ last.v.spec.spec = "Bitmask" => (last.v.spec.def = None <=> named)

\* parse_type is running for a <type> whose category is none of the ten
OtherCategory ==
    /\ stack # <<>> /\ stack[Len(stack)].fn = "parse_type"
    /\ SpecOfCategory(Get(stack[Len(stack)].attrs, "category"), FALSE) = ""

\* C35: the variant of every Type that parse_type returns is the one of its
\* category attribute, a Bitmask holds no definition exactly when the type
\* has a name or alias attribute and a named handle has the variant None; a
\* parse_type whose category is none of the ten leaves the stack only by
\* aborting the parse.
C35_VariantByCategory ==
    /\ []VariantOfReturned
    /\ [][OtherCategory /\ Len(stack') < Len(stack) => result'.st = "panic"]_vars

\* a handle with a name attribute and both children was returned with the
\* variant None
C35_Witness ==
    /\ sig.t = "Ret" /\ last.fn = "parse_type" /\ last.some
    /\ Get(last.attrs, "category") = Some(<<"h", "a", "n", "d", "l", "e">>)
    /\ Has(last.attrs, "name")
    /\ tok.text = <<"N">> \o T_VK_DEFINE_HANDLE
    /\ last.v.spec.spec = "None"

\* parse_command has returned for the <command> of a document of <proto>
\* and <param> children without tokenization error
CommandReturned ==
    /\ fam = "cmds" /\ WellFormed
    /\ sig.t = "Ret" /\ last.fn = "parse_command"

\* a <proto> or <param> of the document's command that has its <type> and its
\* <name>
Complete(d) == Len(d.text) = 2

\* the names of the complete <param> children of the document's command, in
\* document order
ParamNames ==
    LET params == SelectSeq(tok.cmd, LAMBDA d : d.name = "param" /\ Complete(d))
    IN [i \in 1..Len(params) |-> <<params[i].text[2]>>]

\* C36: a <command> with the attributes alias and name is returned as
\* Alias{alias, name} with its children skipped; one without alias is
\* returned as a Definition only if a <proto> child is complete, and then its
\* params are the complete <param> children in document order; when it is not
\* returned, MissingElement naming proto is logged last.
C36_AliasOrDefinition ==
    /\ CommandReturned /\ Has(last.attrs, "alias") /\ Has(last.attrs, "name") =>
          /\ last.some
          /\ last.v = [k |-> "Alias", alias |-> Get(last.attrs, "alias").v,
                       name |-> Get(last.attrs, "name").v]
          /\ BackAtCaller /\ Logged = <<>>
    /\ CommandReturned /\ ~Has(last.attrs, "alias") /\ last.some =>
          /\ last.v.k = "Definition"
          /\ \E i \in 1..Len(tok.cmd) : tok.cmd[i].name = "proto" /\ Complete(tok.cmd[i])
          /\ [i \in 1..Len(last.v.params) |-> last.v.params[i].definition.name] = ParamNames
    /\ CommandReturned /\ ~Has(last.attrs, "alias") /\ ~last.some =>
          /\ ~\E i \in 1..Len(tok.cmd) : tok.cmd[i].name = "proto" /\ Complete(tok.cmd[i])
          /\ Logged # <<>>
          /\ Last(Logged).kind = "MissingElement" /\ Last(Logged).name = "proto"

\* the command `<proto>T N</proto><param>T a</param><param>T b</param>` was
\* returned as a Definition with the params a and b
C36_Witness ==
    /\ CommandReturned /\ last.some /\ last.v.k = "Definition"
    /\ last.v.proto.name = <<"N">>
    /\ Len(last.v.params) = 2
    /\ last.v.params[1].definition.name = <<"a">>
    /\ last.v.params[2].definition.name = <<"b">>

\* the body texts of declarations, with `, ` between every two of them
RECURSIVE Joined(_)
Joined(decls) ==
    IF decls = <<>> THEN <<>>
    ELSE IF Len(decls) = 1 THEN decls[1].text
    ELSE decls[1].text \o <<",", " ">> \o Joined(Tail(decls))

\* the prototype of the document's command: the text of the <proto> body,
\* `(`, the texts of the <param> bodies with `, ` between them, `);`
Prototype ==
    LET protos == SelectSeq(tok.cmd, LAMBDA d : d.name = "proto")
        params == SelectSeq(tok.cmd, LAMBDA d : d.name = "param")
    IN (IF protos = <<>> THEN <<>> ELSE protos[1].text)
       \o <<"(">> \o Joined(params) \o <<")", ";">>

\* C37: the code of every command Definition is the text of the <proto>
\* body, `(`, the texts of the <param> bodies with exactly one `, ` between
\* every two consecutive <param> elements, and `);`.
C37_CodeIsPrototype ==
    CommandReturned /\ last.some /\ last.v.k = "Definition" => last.v.code = Prototype

\* the arm "enums" has returned an Enums for an element with the attribute
IntegerParsed(attribute) ==
    /\ sig.t = "Ret" /\ last.fn = "enums" /\ last.some
    /\ Has(last.attrs, attribute)

\* the value of a digit, 16 for any other character
DigitOf(ch) ==
    CASE ch = "0" -> 0 [] ch = "1" -> 1 [] ch = "2" -> 2 [] ch = "3" -> 3 [] ch = "4" -> 4
      [] ch = "5" -> 5 [] ch = "6" -> 6 [] ch = "7" -> 7 [] ch = "8" -> 8 [] ch = "9" -> 9
      [] ch \in {"a", "A"} -> 10 [] ch \in {"b", "B"} -> 11 [] ch \in {"c", "C"} -> 12
      [] ch \in {"d", "D"} -> 13 [] ch \in {"e", "E"} -> 14 [] ch \in {"f", "F"} -> 15
      [] OTHER -> 16

\* a text of one digit or more of the radix
Numeral(t, radix) == t # <<>> /\ \A i \in 1..Len(t) : DigitOf(t[i]) < radix

\* the number a numeral stands for, or a number beyond the range of i64 when
\* it is beyond that range
RECURSIVE NumberOf(_, _)
NumberOf(t, radix) ==
    IF t = <<>> THEN 0
    ELSE LET n == NumberOf(Front(t), radix)
         IN IF n > (i64_MAX + 1) \div radix THEN i64_MAX + 2
            ELSE n * radix + DigitOf(Last(t))

\* the integer that a literal stands for: `0x` and hexadecimal digits, or
\* decimal digits after an optional sign; absent for any other text and for
\* a number outside the range of i64
LiteralOf(t) ==
    LET hex == starts_with(t, <<"0", "x">>)
        signed == ~hex /\ t # <<>> /\ Head(t) \in {"-", "+"}
        body == IF hex THEN SubSeq(t, 3, Len(t)) ELSE IF signed THEN Tail(t) ELSE t
        radix == IF hex THEN 16 ELSE 10
        v == IF signed /\ Head(t) = "-" THEN 0 - NumberOf(body, radix)
             ELSE NumberOf(body, radix)
    IN IF Numeral(body, radix) /\ v >= 0 - i64_MAX - 1 /\ v <= i64_MAX
       THEN Some(v) ELSE None

\* C38: parse_integer returns the value of a text that is `0x` and
\* hexadecimal digits or a decimal literal in the range of i64 and logs
\* nothing; for every other text it returns absent and logs exactly one
\* SchemaViolation at the current breadcrumb.
C38_IntegerOrViolation ==
    LET text == Get(last.attrs, "start").v
    IN IntegerParsed("start") =>
          IF LiteralOf(text).some
          THEN /\ last.v.start.some /\ last.v.start.v = LiteralOf(text).v
               /\ Logged = <<>>
          ELSE /\ ~last.v.start.some
               /\ Len(Logged) = 1
               /\ Logged[1].kind = "SchemaViolation" /\ Logged[1].xpath = xpath

\* C39: the bitwidth of an Enums whose bitwidth attribute is the integer v
\* is v.
C39_BitwidthIsValue ==
    LET v == LiteralOf(Get(last.attrs, "bitwidth").v)
    IN IntegerParsed("bitwidth") /\ v.some =>
          last.v.bitwidth.some /\ last.v.bitwidth.v = v.v

\* parse_enum has returned for an <enum> whose dir is not `-`
OtherDir ==
    /\ Pulling /\ last.fn = "parse_enum"
    /\ Has(last.attrs, "dir") /\ Get(last.attrs, "dir").v # <<"-">>

\* parse_extension has returned for an <extension> whose provisional is not
\* `true`
OtherProvisional ==
    /\ Pulling /\ last.fn = "parse_extension"
    /\ Has(last.attrs, "provisional")
    /\ Get(last.attrs, "provisional").v # <<"t", "r", "u", "e">>

\* C40, as stated: an <enum> whose dir is not `-` and an <extension> whose
\* provisional is not `true` are each reported with a SchemaViolation, and
\* the parse goes on.
C40_BothSchemaViolations ==
    OtherDir \/ OtherProvisional =>
       /\ \E i \in 1..Len(Logged) : Logged[i].kind = "SchemaViolation"
       /\ result.st = "running"

\* C40, amended: an <enum> whose dir is not `-` is reported with an
\* UnexpectedAttributeValue naming dir, at the breadcrumb of the enum, and a
\* named one is still returned with dir = true when its offset and extends
\* are given; an <extension> whose provisional is not `true` is reported with
\* a SchemaViolation at the breadcrumb of the extension and a named one is
\* returned with provisional = false; in both cases the parse goes on.
C40_DirValueAndProvisional ==
    /\ OtherDir =>
          /\ \E i \in 1..Len(Logged) :
                Logged[i] = Diag("UnexpectedAttributeValue", Append(last.x0, "enum"), "dir")
          /\ Has(last.attrs, "name") /\ Has(last.attrs, "extends")
                /\ Specifying = {"offset"} /\ parse_integer(Get(last.attrs, "offset").v).some
                => last.some /\ last.v.spec.dir
          /\ result.st = "running"
    /\ OtherProvisional =>
          /\ \E i \in 1..Len(Logged) :
                /\ Logged[i].kind = "SchemaViolation"
                /\ Logged[i].xpath = Append(last.x0, "extension")
          /\ Has(last.attrs, "name") /\ WellFormed => last.some /\ ~last.v.provisional
          /\ result.st = "running"

\* an <enum> with offset, extends and dir `+` was returned with dir = true
\* and one UnexpectedAttributeValue
C40_Witness ==
    /\ OtherDir /\ last.some
    /\ Get(last.attrs, "dir") = Some(<<"+">>)
    /\ last.v.spec.dir
    /\ Len(Logged) = 1 /\ Logged[1].kind = "UnexpectedAttributeValue"
====
